---- MODULE Spec2Model ----
(***************************************************************************)
(* Greybus protocol adapters (HID, SDIO, USB host) of greybus-zephyr.      *)
(*                                                                         *)
(* One bundle/CPort is modelled, with one of the three drivers registered  *)
(* on it; for SDIO a second instance on its own bundle can stand next to   *)
(* it.  Every handler of the C source is an operator of the same name      *)
(* that maps the adapter's private state, the request and the outcome of   *)
(* the calls it makes into the environment (host driver, response          *)
(* allocator) to the new private state, the status returned, the response  *)
(* it allocated and the capability calls it made.                          *)
(***************************************************************************)
EXTENDS Integers, Sequences, FiniteSets, TLC

VARIABLES
    driver,        \* which gb_driver is registered on the bundle
    max_payload,   \* GB_MAX_PAYLOAD_SIZE of the build
    sdio,          \* struct gb_sdio_info (bundle->priv of the SDIO driver)
    peer,          \* struct gb_sdio_info of a second SDIO instance, on another bundle
    hid,           \* struct gb_hid_info (bundle->priv of the HID driver), less the queue
    hid_api,       \* the entries of hid_info->hid_dev->api, {"NULL"} for no table
    usbdev,        \* the static usbdev of usb.c
    data_queue,    \* hid_info->data_queue: the messages it holds, oldest first
    thread_pc,     \* where report_proc_thread is: "get", "create" or "send"
    thread_msg,    \* the msg local of report_proc_thread
    last,          \* the operation handled by the latest step, and its outcome
    lastDefer,     \* history: command decoded by the latest deferring command
    superseded,    \* history: the latest deferring command overwrote another, no transfer between
    ranSince,      \* history: transfers since the latest deferring command:
                   \* "none", "handled" (none reached the host) or "ran"
    desc_cached,   \* history: a get_descriptor has succeeded on this instance
    reports,       \* history: number of reports the driver has delivered to the callback
    dropped,       \* history: the reports that met a full queue
    sent,          \* history: the reports sent as outbound operations, in order
    phase,         \* the bundle's driver: "registered", "active" (init returned 0),
                   \* "failed" (init returned an error) or "exited"
    hid_res        \* what gb_hid_init acquired: context, queue storage, thread,
                   \* the callback at the device, bundle->priv

sdioVars == <<sdio, peer, lastDefer, superseded, ranSince>>

hidVars == <<hid, hid_api, desc_cached>>

pipeVars == <<data_queue, thread_pc, thread_msg, reports, dropped, sent>>

lifeVars == <<phase, hid_res>>

vars == <<driver, max_payload, sdioVars, hidVars, usbdev, pipeVars, lifeVars, last>>

(***************************************************************************)
(* Operation status codes.                                                 *)
(***************************************************************************)
GB_OP_SUCCESS == "GB_OP_SUCCESS"
GB_OP_NO_MEMORY == "GB_OP_NO_MEMORY"
GB_OP_INVALID == "GB_OP_INVALID"
GB_OP_UNKNOWN_ERROR == "GB_OP_UNKNOWN_ERROR"

(***************************************************************************)
(* Wire encoding: multi-byte fields are little-endian byte strings.        *)
(***************************************************************************)
sys_cpu_to_le16(x) == <<x % 256, (x \div 256) % 256>>

sys_le16_to_cpu(b) == b[1] + 256 * b[2]

sys_cpu_to_le32(x) ==
    <<x % 256, (x \div 256) % 256, (x \div 65536) % 256, (x \div 16777216) % 256>>

sys_le32_to_cpu(b) == b[1] + 256 * b[2] + 65536 * b[3] + 16777216 * b[4]

(***************************************************************************)
(* Sizes of the wire structures read and written by the handlers.          *)
(***************************************************************************)
sizeof(struct) ==
    CASE struct = "gb_sdio_proto_version_response" -> 2
      [] struct = "gb_sdio_get_caps_response" -> 20
      [] struct = "gb_sdio_set_ios_request" -> 14
      [] struct = "gb_sdio_command_request" -> 11
      [] struct = "gb_sdio_command_response" -> 16
      [] struct = "gb_sdio_transfer_request" -> 5
      [] struct = "gb_sdio_transfer_response" -> 4
      [] struct = "gb_hid_proto_version_response" -> 2
      [] struct = "gb_hid_desc_response" -> 10
      [] struct = "gb_hid_get_report_request" -> 2
      [] struct = "gb_hid_set_report_request" -> 2
      [] struct = "gb_usb_proto_version_response" -> 2
      [] struct = "gb_usb_hub_control_request" -> 8
      [] struct = "gb_usb_hub_control_response" -> 0

(***************************************************************************)
(* A response buffer: its payload length and the fields written to it.     *)
(* NoResp: the handler allocated no response.                              *)
(***************************************************************************)
NoResp == [len |-> -1, payload |-> <<>>]

gb_operation_alloc_response(size) == [len |-> size, payload |-> <<>>]

(***************************************************************************)
(* Translation of a host errno into an operation status.                   *)
(***************************************************************************)
gb_errno_to_op_result(err) ==
    CASE err = 0 -> GB_OP_SUCCESS
      [] err = -12 -> GB_OP_NO_MEMORY
      [] err = -22 -> GB_OP_INVALID
      [] OTHER -> GB_OP_UNKNOWN_ERROR

(***************************************************************************)
(* SDIO                                                                    *)
(***************************************************************************)
MAX_BLOCK_SIZE_0 == 512
MAX_BLOCK_SIZE_1 == 1024
MAX_BLOCK_SIZE_2 == 2048

GB_SDIO_VERSION_MAJOR == 0
GB_SDIO_VERSION_MINOR == 1

ZeroCmd ==
    [opcode |-> 0, arg |-> 0, response_type |-> "SD_RSP_TYPE_NONE",
     response |-> <<0, 0, 0, 0>>]

\* The fields of a command that the request decides (not the host's answer).
CmdKey(cmd) == <<cmd.opcode, cmd.arg, cmd.response_type>>

NoData == [block_size |-> 0, blocks |-> 0, data |-> "NULL"]

\* One entry of the calls a handler made into the host driver: the function, its
\* arguments, its return value and the response words the host left in the command.
HostCall(fn, cmd, data, env) ==
    [fn |-> fn, cmd |-> cmd, data |-> data, ret |-> env.ret,
     out |-> IF env.ret = 0 /\ fn = "sdhc_request" THEN env.words ELSE cmd.response]

\* Mutant: the boundaries compared with <= instead of <.
scale_max_sd_block_length_le(value) ==
    IF value <= MAX_BLOCK_SIZE_0 THEN 0
    ELSE IF value <= MAX_BLOCK_SIZE_1 THEN MAX_BLOCK_SIZE_0
    ELSE IF value <= MAX_BLOCK_SIZE_2 THEN MAX_BLOCK_SIZE_1
    ELSE MAX_BLOCK_SIZE_2

\* Mutant: every budget that holds a block gets the smallest block size.
scale_max_sd_block_length_smallest(value) ==
    IF value < MAX_BLOCK_SIZE_0 THEN 0 ELSE MAX_BLOCK_SIZE_0

scale_max_sd_block_length(value) ==
    IF value < MAX_BLOCK_SIZE_0 THEN 0
    ELSE IF value < MAX_BLOCK_SIZE_1 THEN MAX_BLOCK_SIZE_0
    ELSE IF value < MAX_BLOCK_SIZE_2 THEN MAX_BLOCK_SIZE_1
    ELSE MAX_BLOCK_SIZE_2

Result(info, status, resp, calls) ==
    [info |-> info, status |-> status, resp |-> resp, calls |-> calls]

\* Mutant: answering the version also forgets the pending command.
gb_sdio_protocol_version_forgets(info, req, env) ==
    IF ~env.alloc THEN Result(info, GB_OP_NO_MEMORY, NoResp, <<>>)
    ELSE Result([info EXCEPT !.has_deferred_cmd = FALSE], GB_OP_SUCCESS,
                [len |-> sizeof("gb_sdio_proto_version_response"),
                 payload |-> <<GB_SDIO_VERSION_MAJOR, GB_SDIO_VERSION_MINOR>>],
                <<>>)

gb_sdio_protocol_version(info, req, env) ==
    IF ~env.alloc THEN Result(info, GB_OP_NO_MEMORY, NoResp, <<>>)
    ELSE Result(info, GB_OP_SUCCESS,
                [len |-> sizeof("gb_sdio_proto_version_response"),
                 payload |-> <<GB_SDIO_VERSION_MAJOR, GB_SDIO_VERSION_MINOR>>],
                <<>>)

\* struct sdhc_host_props as far as get_capabilities reads it.
gb_sdio_caps(props) ==
    (IF "bus_4_bit_support" \in props.host_caps THEN {"GB_SDIO_CAP_4_BIT_DATA"} ELSE {})
    \cup (IF "bus_8_bit_support" \in props.host_caps THEN {"GB_SDIO_CAP_8_BIT_DATA"} ELSE {})
    \cup (IF "high_speed_support" \in props.host_caps
          THEN {"GB_SDIO_CAP_SD_HS", "GB_SDIO_CAP_MMC_HS"} ELSE {})
    \cup (IF "vol_330_support" \in props.host_caps THEN {"GB_SDIO_CAP_HS200_1_2V"} ELSE {})

\* max_data_size is a uint16_t.
sdio_max_data_size(payload_size) ==
    scale_max_sd_block_length((payload_size - sizeof("gb_sdio_transfer_response")) % 65536)

gb_sdio_protocol_get_capabilities(info, req, env) ==
    LET call == HostCall("sdhc_get_host_props", ZeroCmd, NoData, env)
        max_data_size == sdio_max_data_size(env.max_payload)
        response == gb_operation_alloc_response(sizeof("gb_sdio_get_caps_response"))
    IN  IF env.ret # 0 THEN Result(info, gb_errno_to_op_result(env.ret), NoResp, <<call>>)
        ELSE IF ~env.alloc THEN Result(info, GB_OP_NO_MEMORY, NoResp, <<call>>)
        ELSE IF max_data_size = 0 THEN Result(info, GB_OP_INVALID, response, <<call>>)
        ELSE Result(info, GB_OP_SUCCESS,
                    [response EXCEPT !.payload =
                        <<gb_sdio_caps(env.props),
                          sys_cpu_to_le32(16744448),
                          sys_cpu_to_le32(env.props.f_min),
                          sys_cpu_to_le32(env.props.f_max),
                          sys_cpu_to_le16(max_data_size \div 512),
                          sys_cpu_to_le16(512)>>],
                    <<call>>)

sdio_ios(request) ==
    [clock |-> sys_le32_to_cpu(request.clock),
     bus_mode |->
        CASE request.bus_mode = "GB_SDIO_BUSMODE_OPENDRAIN" -> "SDHC_BUSMODE_OPENDRAIN"
          [] request.bus_mode = "GB_SDIO_BUSMODE_PUSHPULL" -> "SDHC_BUSMODE_PUSHPULL"
          [] OTHER -> "SDHC_BUSMODE_PUSHPULL",
     power_mode |->
        CASE request.power_mode = "GB_SDIO_POWER_OFF" -> "SDHC_POWER_OFF"
          [] request.power_mode = "GB_SDIO_POWER_UP" -> "SDHC_POWER_ON"
          [] request.power_mode = "GB_SDIO_POWER_ON" -> "SDHC_POWER_ON"
          [] OTHER -> "SDHC_POWER_OFF",
     bus_width |->
        CASE request.bus_width = "GB_SDIO_BUS_WIDTH_1" -> "SDHC_BUS_WIDTH1BIT"
          [] request.bus_width = "GB_SDIO_BUS_WIDTH_4" -> "SDHC_BUS_WIDTH4BIT"
          [] request.bus_width = "GB_SDIO_BUS_WIDTH_8" -> "SDHC_BUS_WIDTH8BIT"
          [] OTHER -> "SDHC_BUS_WIDTH1BIT",
     timing |->
        CASE request.timing = "GB_SDIO_TIMING_LEGACY" -> "SDHC_TIMING_LEGACY"
          [] request.timing = "GB_SDIO_TIMING_SD_HS" -> "SDHC_TIMING_HS"
          [] request.timing = "GB_SDIO_TIMING_MMC_HS" -> "SDHC_TIMING_HS"
          [] OTHER -> "SDHC_TIMING_LEGACY",
     signal_voltage |->
        CASE request.signal_voltage = "GB_SDIO_SIGNAL_VOLTAGE_330" -> "SD_VOL_3_3_V"
          [] request.signal_voltage = "GB_SDIO_SIGNAL_VOLTAGE_180" -> "SD_VOL_1_8_V"
          [] request.signal_voltage = "GB_SDIO_SIGNAL_VOLTAGE_120" -> "SD_VOL_1_2_V"
          [] OTHER -> "SD_VOL_3_3_V"]

gb_sdio_protocol_set_ios(info, request, env) ==
    IF request.size < sizeof("gb_sdio_set_ios_request")
    THEN Result(info, GB_OP_INVALID, NoResp, <<>>)
    ELSE LET call == HostCall("sdhc_set_io", ZeroCmd, sdio_ios(request), env)
         IN  IF env.ret # 0
             THEN Result(info, gb_errno_to_op_result(env.ret), NoResp, <<call>>)
             ELSE Result(info, GB_OP_SUCCESS, NoResp, <<call>>)

\* The struct sdhc_command that gb_sdio_protocol_command builds from a request.
sdio_decode_command(request) ==
    [opcode |-> request.cmd,
     arg |-> sys_le32_to_cpu(request.cmd_arg),
     response_type |->
        IF "GB_SDIO_RSP_PRESENT" \in request.cmd_flags
        THEN IF "GB_SDIO_RSP_136" \in request.cmd_flags THEN "SD_RSP_TYPE_R2"
             ELSE IF "GB_SDIO_RSP_BUSY" \in request.cmd_flags THEN "SD_RSP_TYPE_R1b"
             ELSE "SD_RSP_TYPE_R1"
        ELSE "SD_RSP_TYPE_NONE",
     response |-> <<0, 0, 0, 0>>]

\* Mutant: the command is stored but the pending flag is not set.
sdio_defer_command_no_flag(info, cmd) == [info EXCEPT !.deferred_cmd = cmd]

\* Mutant: a pending command is kept, the new one is not stored.
sdio_defer_command_keep_first(info, cmd) ==
    IF info.has_deferred_cmd THEN info
    ELSE [info EXCEPT !.deferred_cmd = cmd, !.has_deferred_cmd = TRUE]

\* The deferring branch: store the command and set the flag.
sdio_defer_command(info, cmd) ==
    [info EXCEPT !.deferred_cmd = cmd, !.has_deferred_cmd = TRUE]

\* Mutant: an immediate command is built in the slot of the deferred command.
gb_sdio_protocol_command_slot_as_scratch(info, request, env) ==
    IF request.size < sizeof("gb_sdio_command_request")
    THEN Result(info, GB_OP_INVALID, NoResp, <<>>)
    ELSE
    LET data_blocks == sys_le16_to_cpu(request.data_blocks)
        cmd == sdio_decode_command(request)
        response == gb_operation_alloc_response(sizeof("gb_sdio_command_response"))
    IN  IF data_blocks > 0
        THEN LET deferred == sdio_defer_command(info, cmd)
             IN  IF ~env.alloc THEN Result(deferred, GB_OP_NO_MEMORY, NoResp, <<>>)
                 ELSE Result(deferred, GB_OP_SUCCESS,
                             [response EXCEPT !.payload =
                                <<sys_cpu_to_le32(2304), sys_cpu_to_le32(0),
                                  sys_cpu_to_le32(0), sys_cpu_to_le32(0)>>],
                             <<>>)
        ELSE LET call == HostCall("sdhc_request", cmd, NoData, env)
                 used == [info EXCEPT !.deferred_cmd = cmd]
             IN  IF env.ret # 0
                 THEN Result(used, gb_errno_to_op_result(env.ret), NoResp, <<call>>)
                 ELSE IF ~env.alloc THEN Result(used, GB_OP_NO_MEMORY, NoResp, <<call>>)
                 ELSE Result(used, GB_OP_SUCCESS,
                             [response EXCEPT !.payload =
                                [i \in 1..4 |-> sys_cpu_to_le32(env.words[i])]],
                             <<call>>)

\* Mutant: the deferring branch stores the command only once it has its response.
gb_sdio_protocol_command_allocates_first(info, request, env) ==
    IF request.size < sizeof("gb_sdio_command_request")
    THEN Result(info, GB_OP_INVALID, NoResp, <<>>)
    ELSE
    LET data_blocks == sys_le16_to_cpu(request.data_blocks)
        cmd == sdio_decode_command(request)
        response == gb_operation_alloc_response(sizeof("gb_sdio_command_response"))
    IN  IF data_blocks > 0
        THEN LET deferred == sdio_defer_command(info, cmd)
             IN  IF ~env.alloc THEN Result(info, GB_OP_NO_MEMORY, NoResp, <<>>)
                 ELSE Result(deferred, GB_OP_SUCCESS,
                             [response EXCEPT !.payload =
                                <<sys_cpu_to_le32(2304), sys_cpu_to_le32(0),
                                  sys_cpu_to_le32(0), sys_cpu_to_le32(0)>>],
                             <<>>)
        ELSE LET call == HostCall("sdhc_request", cmd, NoData, env)
             IN  IF env.ret # 0
                 THEN Result(info, gb_errno_to_op_result(env.ret), NoResp, <<call>>)
                 ELSE IF ~env.alloc THEN Result(info, GB_OP_NO_MEMORY, NoResp, <<call>>)
                 ELSE Result(info, GB_OP_SUCCESS,
                             [response EXCEPT !.payload =
                                [i \in 1..4 |-> sys_cpu_to_le32(env.words[i])]],
                             <<call>>)

gb_sdio_protocol_command(info, request, env) ==
    IF request.size < sizeof("gb_sdio_command_request")
    THEN Result(info, GB_OP_INVALID, NoResp, <<>>)
    ELSE
    LET data_blocks == sys_le16_to_cpu(request.data_blocks)
        cmd == sdio_decode_command(request)
        response == gb_operation_alloc_response(sizeof("gb_sdio_command_response"))
    IN  IF data_blocks > 0
        THEN LET deferred == sdio_defer_command(info, cmd)
             IN  IF ~env.alloc THEN Result(deferred, GB_OP_NO_MEMORY, NoResp, <<>>)
                 ELSE Result(deferred, GB_OP_SUCCESS,
                             [response EXCEPT !.payload =
                                <<sys_cpu_to_le32(2304), sys_cpu_to_le32(0),
                                  sys_cpu_to_le32(0), sys_cpu_to_le32(0)>>],
                             <<>>)
        ELSE LET call == HostCall("sdhc_request", cmd, NoData, env)
             IN  IF env.ret # 0
                 THEN Result(info, gb_errno_to_op_result(env.ret), NoResp, <<call>>)
                 ELSE IF ~env.alloc THEN Result(info, GB_OP_NO_MEMORY, NoResp, <<call>>)
                 ELSE Result(info, GB_OP_SUCCESS,
                             [response EXCEPT !.payload =
                                [i \in 1..4 |-> sys_cpu_to_le32(env.words[i])]],
                             <<call>>)

\* request->data is the array that ends the request: its address is never NULL.
sdio_request_data_is_null(request) == FALSE

\* Every exit of the transfer handler that follows a host request clears the flag,
\* except the allocation failure of the write branch.
sdio_clear_deferred(info) == [info EXCEPT !.has_deferred_cmd = FALSE]

\* sdhc_request on the stored command: the host writes its answer into
\* info->deferred_cmd.response when it succeeds.
sdio_host_ran_deferred(info, env) ==
    IF env.ret = 0 THEN [info EXCEPT !.deferred_cmd.response = env.words] ELSE info

gb_sdio_protocol_transfer(info, request, env) ==
    IF request.size < sizeof("gb_sdio_transfer_request")
    THEN Result(info, GB_OP_INVALID, NoResp, <<>>)
    ELSE
    LET blocks == sys_le16_to_cpu(request.data_blocks)
        blksz == sys_le16_to_cpu(request.data_blksz)
        filled(response) ==
            [response EXCEPT !.payload = <<sys_cpu_to_le16(blocks), sys_cpu_to_le16(blksz)>>]
    IN  IF ~info.has_deferred_cmd THEN Result(info, GB_OP_INVALID, NoResp, <<>>)
        ELSE IF "GB_SDIO_DATA_WRITE" \in request.data_flags
        THEN IF sdio_request_data_is_null(request)
             THEN Result(info, GB_OP_INVALID, NoResp, <<>>)
             ELSE
             LET data == [block_size |-> blksz, blocks |-> blocks, data |-> "request->data"]
                 call == HostCall("sdhc_request", info.deferred_cmd, data, env)
                 ran == sdio_host_ran_deferred(info, env)
                 response ==
                    gb_operation_alloc_response(sizeof("gb_sdio_transfer_response"))
             IN  IF env.ret # 0
                 THEN Result(sdio_clear_deferred(ran), gb_errno_to_op_result(env.ret),
                             NoResp, <<call>>)
                 ELSE IF ~env.alloc THEN Result(ran, GB_OP_NO_MEMORY, NoResp, <<call>>)
                 ELSE Result(sdio_clear_deferred(ran), GB_OP_SUCCESS, filled(response),
                             <<call>>)
        ELSE IF "GB_SDIO_DATA_READ" \in request.data_flags
        THEN LET response ==
                    gb_operation_alloc_response(
                        sizeof("gb_sdio_transfer_response") + blocks * blksz)
                 data == [block_size |-> blksz, blocks |-> blocks, data |-> "response->data"]
                 call == HostCall("sdhc_request", info.deferred_cmd, data, env)
                 ran == sdio_host_ran_deferred(info, env)
             IN  IF ~env.alloc THEN Result(info, GB_OP_NO_MEMORY, NoResp, <<>>)
                 ELSE IF env.ret # 0
                 THEN Result(sdio_clear_deferred(ran), gb_errno_to_op_result(env.ret),
                             response, <<call>>)
                 ELSE Result(sdio_clear_deferred(ran), GB_OP_SUCCESS, filled(response),
                             <<call>>)
        ELSE Result(info, GB_OP_INVALID, NoResp, <<>>)

gb_sdio_handler(type, info, opr, env) ==
    CASE type = "GB_SDIO_TYPE_PROTOCOL_VERSION" -> gb_sdio_protocol_version(info, opr, env)
      [] type = "GB_SDIO_TYPE_GET_CAPABILITIES" ->
            gb_sdio_protocol_get_capabilities(info, opr, env)
      [] type = "GB_SDIO_TYPE_SET_IOS" -> gb_sdio_protocol_set_ios(info, opr, env)
      [] type = "GB_SDIO_TYPE_COMMAND" -> gb_sdio_protocol_command(info, opr, env)
      [] type = "GB_SDIO_TYPE_TRANSFER" -> gb_sdio_protocol_transfer(info, opr, env)
      [] OTHER -> Result(info, GB_OP_INVALID, NoResp, <<>>)

\* The private state that gb_sdio_init leaves in bundle->priv.
gb_sdio_init(cport) ==
    [cport |-> cport, sdhc_dev |-> "sdhc", deferred_cmd |-> ZeroCmd,
     has_deferred_cmd |-> FALSE]

(***************************************************************************)
(* HID                                                                     *)
(***************************************************************************)
GB_HID_VERSION_MAJOR == 0
GB_HID_VERSION_MINOR == 1

\* Reserved operations for the input report queue.
MAX_REPORT_OPERATIONS == 5

\* bundle->priv before gb_hid_init has set it.
NullInfo == [null |-> TRUE]

\* One entry of the calls a handler made into a driver's api: function, arguments, result.
ApiCall(fn, args, ret) == [fn |-> fn, args |-> args, ret |-> ret]

\* hid_info->hid_dev->api has the entry: the device, its table and the entry exist.
HidApiHas(info, api, entries) ==
    /\ ~info.null
    /\ info.hid_dev # "NULL"
    /\ api # {"NULL"}
    /\ entries \subseteq api

gb_hid_protocol_version(info, api, req, env) ==
    IF ~env.alloc THEN Result(info, GB_OP_NO_MEMORY, NoResp, <<>>)
    ELSE Result(info, GB_OP_SUCCESS,
                [len |-> sizeof("gb_hid_proto_version_response"),
                 payload |-> <<GB_HID_VERSION_MAJOR, GB_HID_VERSION_MINOR>>],
                <<>>)

\* Mutant: the length is cached as soon as the capability has answered.
gb_hid_get_descriptor_caches_early(info, api, req, env) ==
    IF ~HidApiHas(info, api, {"get_descriptor"})
    THEN Result(info, GB_OP_UNKNOWN_ERROR, NoResp, <<>>)
    ELSE LET hid_desc == env.desc
             call == ApiCall("get_descriptor", <<hid_desc>>, env.ret)
             cached == [info EXCEPT !.report_desc_len = hid_desc.report_desc_length]
         IN  IF env.ret # 0 THEN Result(info, GB_OP_UNKNOWN_ERROR, NoResp, <<call>>)
             ELSE IF ~env.alloc THEN Result(cached, GB_OP_NO_MEMORY, NoResp, <<call>>)
             ELSE Result(cached, GB_OP_SUCCESS,
                         [len |-> sizeof("gb_hid_desc_response"), payload |-> <<>>],
                         <<call>>)

gb_hid_get_descriptor(info, api, req, env) ==
    IF ~HidApiHas(info, api, {"get_descriptor"})
    THEN Result(info, GB_OP_UNKNOWN_ERROR, NoResp, <<>>)
    ELSE LET hid_desc == env.desc
             call == ApiCall("get_descriptor", <<hid_desc>>, env.ret)
         IN  IF env.ret # 0 THEN Result(info, GB_OP_UNKNOWN_ERROR, NoResp, <<call>>)
             ELSE IF ~env.alloc THEN Result(info, GB_OP_NO_MEMORY, NoResp, <<call>>)
             ELSE Result([info EXCEPT !.report_desc_len = hid_desc.report_desc_length],
                         GB_OP_SUCCESS,
                         [len |-> sizeof("gb_hid_desc_response"),
                          payload |-> <<hid_desc.length,
                                        sys_cpu_to_le16(hid_desc.report_desc_length),
                                        sys_cpu_to_le16(hid_desc.hid_version),
                                        sys_cpu_to_le16(hid_desc.product_id),
                                        sys_cpu_to_le16(hid_desc.vendor_id),
                                        hid_desc.country_code>>],
                         <<call>>)

gb_hid_get_report_descriptor(info, api, req, env) ==
    IF ~HidApiHas(info, api, {"get_report_descriptor"})
    THEN Result(info, GB_OP_UNKNOWN_ERROR, NoResp, <<>>)
    ELSE LET response == gb_operation_alloc_response(info.report_desc_len)
             call == ApiCall("get_report_descriptor", <<>>, env.ret)
         IN  IF ~env.alloc THEN Result(info, GB_OP_NO_MEMORY, NoResp, <<>>)
             ELSE IF env.ret # 0 THEN Result(info, GB_OP_UNKNOWN_ERROR, response, <<call>>)
             ELSE Result(info, GB_OP_SUCCESS,
                         [response EXCEPT !.payload = <<"report descriptor">>], <<call>>)

gb_hid_power_on(info, api, req, env) ==
    IF ~HidApiHas(info, api, {"power_on"})
    THEN Result(info, GB_OP_UNKNOWN_ERROR, NoResp, <<>>)
    ELSE LET call == ApiCall("power_on", <<>>, env.ret)
         IN  IF env.ret # 0 THEN Result(info, GB_OP_UNKNOWN_ERROR, NoResp, <<call>>)
             ELSE Result(info, GB_OP_SUCCESS, NoResp, <<call>>)

gb_hid_power_off(info, api, req, env) ==
    IF ~HidApiHas(info, api, {"power_off"})
    THEN Result(info, GB_OP_UNKNOWN_ERROR, NoResp, <<>>)
    ELSE LET call == ApiCall("power_off", <<>>, env.ret)
         IN  IF env.ret # 0 THEN Result(info, GB_OP_UNKNOWN_ERROR, NoResp, <<call>>)
             ELSE Result(info, GB_OP_SUCCESS, NoResp, <<call>>)

\* uint16_t report_len = ret, one more when the report has an id.
hid_get_report_len(ret, report_id) ==
    IF report_id > 0 THEN ((ret % 65536) + 1) % 65536 ELSE ret % 65536

gb_hid_get_report(info, api, request, env) ==
    IF request.size < sizeof("gb_hid_get_report_request")
    THEN Result(info, GB_OP_INVALID, NoResp, <<>>)
    ELSE IF ~HidApiHas(info, api, {})
    THEN Result(info, GB_OP_UNKNOWN_ERROR, NoResp, <<>>)
    ELSE IF "get_report_length" \notin api
    THEN Result(info, GB_OP_UNKNOWN_ERROR, NoResp, <<>>)
    ELSE
    LET length_call ==
            ApiCall("get_report_length", <<request.report_type, request.report_id>>, env.len)
        report_len == hid_get_report_len(env.len, request.report_id)
        response == gb_operation_alloc_response(report_len)
        call == ApiCall("get_report",
                        <<request.report_type, request.report_id, report_len>>, env.ret)
    IN  IF env.len <= 0 THEN Result(info, GB_OP_UNKNOWN_ERROR, NoResp, <<length_call>>)
        ELSE IF ~env.alloc THEN Result(info, GB_OP_NO_MEMORY, NoResp, <<length_call>>)
        ELSE IF "get_report" \notin api
        THEN Result(info, GB_OP_UNKNOWN_ERROR, response, <<length_call>>)
        ELSE IF env.ret # 0
        THEN Result(info, GB_OP_UNKNOWN_ERROR, response, <<length_call, call>>)
        ELSE Result(info, GB_OP_SUCCESS, [response EXCEPT !.payload = <<"report">>],
                    <<length_call, call>>)

gb_hid_set_report(info, api, request, env) ==
    IF request.size < sizeof("gb_hid_set_report_request")
    THEN Result(info, GB_OP_INVALID, NoResp, <<>>)
    ELSE IF ~HidApiHas(info, api, {"get_report_length", "set_report"})
    THEN Result(info, GB_OP_UNKNOWN_ERROR, NoResp, <<>>)
    ELSE
    LET length_call ==
            ApiCall("get_report_length", <<request.report_type, request.report_id>>, env.len)
        \* uint16_t report_len = the int the capability returned
        report_len == env.len % 65536
        call == ApiCall("set_report",
                        <<request.report_type, request.report_id, report_len>>, env.ret)
    IN  IF report_len <= 0 THEN Result(info, GB_OP_UNKNOWN_ERROR, NoResp, <<length_call>>)
        ELSE IF env.ret # 0
        THEN Result(info, GB_OP_UNKNOWN_ERROR, NoResp, <<length_call, call>>)
        ELSE Result(info, GB_OP_SUCCESS, NoResp, <<length_call, call>>)

\* Mutant: types outside the switch are answered with success.
gb_hid_handler_default_success(type, info, api, opr, env) ==
    Result(info, GB_OP_SUCCESS, NoResp, <<>>)

gb_hid_handler(type, info, api, opr, env) ==
    CASE type = "GB_HID_TYPE_PROTOCOL_VERSION" -> gb_hid_protocol_version(info, api, opr, env)
      [] type = "GB_HID_TYPE_GET_DESC" -> gb_hid_get_descriptor(info, api, opr, env)
      [] type = "GB_HID_TYPE_GET_REPORT_DESC" ->
            gb_hid_get_report_descriptor(info, api, opr, env)
      [] type = "GB_HID_TYPE_PWR_ON" -> gb_hid_power_on(info, api, opr, env)
      [] type = "GB_HID_TYPE_PWR_OFF" -> gb_hid_power_off(info, api, opr, env)
      [] type = "GB_HID_TYPE_GET_REPORT" -> gb_hid_get_report(info, api, opr, env)
      [] type = "GB_HID_TYPE_SET_REPORT" -> gb_hid_set_report(info, api, opr, env)
      [] OTHER -> Result(info, GB_OP_INVALID, NoResp, <<>>)

\* The private state that a successful gb_hid_init leaves in bundle->priv: zeroed,
\* then the cport, the device found (or NULL) and the report buffer size.
gb_hid_init(cport, dev, api, max_report_length) ==
    [null |-> FALSE, cport |-> cport, report_desc_len |-> 0, hid_dev |-> dev,
     report_buf_size |->
        IF dev # "NULL" /\ api # {"NULL"} /\ "get_max_report_length" \in api
        THEN max_report_length ELSE 64]

(***************************************************************************)
(* The HID adapter's init and exit, with what they acquire and release.    *)
(***************************************************************************)
\* Nothing acquired: no context, no queue storage, no thread, no callback at the
\* device, bundle->priv NULL.  queue_frees counts gb_free of the queue storage;
\* stale_put records a callback that put into storage that is not there.
HidNoResources ==
    [ctx |-> "none", queue_storage |-> "none", queue_frees |-> 0, thread |-> "none",
     callback |-> FALSE, priv |-> "NULL", stale_put |-> FALSE]

\* Mutant: a refused callback registration leaves the thread running.
gb_hid_init_call_keeps_thread(cport, dev, api, env) ==
    LET has(entry) == dev # "NULL" /\ api # {"NULL"} /\ entry \in api
        started ==
            [HidNoResources EXCEPT
                !.ctx = "allocated",
                !.queue_storage = IF env.buf_alloc THEN "allocated" ELSE "NULL",
                !.thread = "running"]
    IN  IF ~env.ctx_alloc
        THEN [ret |-> -12, info |-> NullInfo, res |-> HidNoResources]
        ELSE IF has("get_max_report_length") /\ env.max_len < 0
        THEN [ret |-> env.max_len, info |-> NullInfo,
              res |-> [HidNoResources EXCEPT !.ctx = "freed"]]
        ELSE IF has("register_callback") /\ env.reg_ret # 0
        THEN [ret |-> env.reg_ret, info |-> NullInfo,
              res |-> [started EXCEPT
                         !.queue_storage = IF @ = "allocated" THEN "freed" ELSE @,
                         !.queue_frees = IF env.buf_alloc THEN 1 ELSE 0,
                         !.ctx = "freed"]]
        ELSE [ret |-> 0,
              info |-> [null |-> FALSE, cport |-> cport, report_desc_len |-> 0,
                        hid_dev |-> dev,
                        report_buf_size |->
                            IF has("get_max_report_length") THEN env.max_len ELSE 64],
              res |-> [started EXCEPT !.callback = has("register_callback"),
                                      !.priv = "hid_info"]]

\* gb_hid_init as a call: its return value, the context it leaves in
\* bundle->priv and the resources held when it returns.  env gives the outcomes
\* of gb_alloc for the context and for the queue storage, of
\* get_max_report_length and of register_callback.
gb_hid_init_call(cport, dev, api, env) ==
    LET has(entry) == dev # "NULL" /\ api # {"NULL"} /\ entry \in api
        started ==
            [HidNoResources EXCEPT
                !.ctx = "allocated",
                !.queue_storage = IF env.buf_alloc THEN "allocated" ELSE "NULL",
                !.thread = "running"]
    IN  IF ~env.ctx_alloc
        THEN [ret |-> -12, info |-> NullInfo, res |-> HidNoResources]
        ELSE IF has("get_max_report_length") /\ env.max_len < 0
        THEN [ret |-> env.max_len, info |-> NullInfo,
              res |-> [HidNoResources EXCEPT !.ctx = "freed"]]
        ELSE IF has("register_callback") /\ env.reg_ret # 0
        THEN [ret |-> env.reg_ret, info |-> NullInfo,
              res |-> [started EXCEPT
                         !.thread = "aborted",
                         !.queue_storage = IF @ = "allocated" THEN "freed" ELSE @,
                         !.queue_frees = IF env.buf_alloc THEN 1 ELSE 0,
                         !.ctx = "freed"]]
        ELSE [ret |-> 0, info |-> gb_hid_init(cport, dev, api, env.max_len),
              res |-> [started EXCEPT !.callback = has("register_callback"),
                                      !.priv = "hid_info"]]

\* gb_hid_exit: the resources it leaves.  bundle->priv is not written.
gb_hid_exit(info, api, res) ==
    IF res.priv = "NULL" THEN res
    ELSE [res EXCEPT
            !.callback = IF HidApiHas(info, api, {"unregister_callback"}) THEN FALSE ELSE @,
            !.thread = "aborted",
            !.queue_storage = IF @ = "allocated" THEN "freed" ELSE @,
            !.queue_frees = IF res.queue_storage \in {"allocated", "freed"} THEN @ + 1 ELSE @,
            !.ctx = "freed"]

(***************************************************************************)
(* The HID input report pipeline: driver callback, message queue, thread.  *)
(***************************************************************************)
\* sizeof(msg.data) of struct hid_msg_data.
HID_MSG_DATA_SIZE == 256

\* k_msgq_put(&queue, &msg, K_NO_WAIT): the message is appended when a slot is
\* free; a full queue is left as it is and the call returns at once.
k_msgq_put(queue, msg) ==
    IF Len(queue) < MAX_REPORT_OPERATIONS THEN Append(queue, msg) ELSE queue

\* Mutant: a full queue makes room by losing its oldest message.
hid_event_callback_routine_overwrite(queue, msg) ==
    IF msg.len > HID_MSG_DATA_SIZE THEN [queue |-> queue, ret |-> -22]
    ELSE [queue |-> IF Len(queue) < MAX_REPORT_OPERATIONS THEN Append(queue, msg)
                    ELSE Append(Tail(queue), msg),
          ret |-> 0]

\* The callback registered with the HID driver: the queue it leaves and its result.
hid_event_callback_routine(queue, msg) ==
    IF msg.len > HID_MSG_DATA_SIZE THEN [queue |-> queue, ret |-> -22]
    ELSE [queue |-> k_msgq_put(queue, msg), ret |-> 0]

(***************************************************************************)
(* USB                                                                     *)
(***************************************************************************)
gb_usb_protocol_version(dev, req, env) ==
    IF ~env.alloc THEN Result(dev, GB_OP_NO_MEMORY, NoResp, <<>>)
    ELSE Result(dev, GB_OP_SUCCESS,
                [len |-> sizeof("gb_usb_proto_version_response"),
                 payload |-> <<"GB_USB_VERSION_MAJOR", "GB_USB_VERSION_MINOR">>],
                <<>>)

gb_usb_hcd_stop(dev, req, env) ==
    IF dev = "NULL" THEN Result(dev, GB_OP_UNKNOWN_ERROR, NoResp, <<>>)
    ELSE LET call == ApiCall("uhc_disable", <<dev>>, env.ret)
         IN  IF env.ret < 0 THEN Result(dev, GB_OP_UNKNOWN_ERROR, NoResp, <<call>>)
             ELSE Result(dev, GB_OP_SUCCESS, NoResp, <<call>>)

\* Mutant: the controller is enabled without looking at the device handle.
gb_usb_hcd_start_unguarded(dev, req, env) ==
    LET call == ApiCall("uhc_enable", <<dev>>, env.ret)
    IN  IF env.ret < 0 THEN Result(dev, GB_OP_UNKNOWN_ERROR, NoResp, <<call>>)
        ELSE Result(dev, GB_OP_SUCCESS, NoResp, <<call>>)

gb_usb_hcd_start(dev, req, env) ==
    IF dev = "NULL" THEN Result(dev, GB_OP_UNKNOWN_ERROR, NoResp, <<>>)
    ELSE LET call == ApiCall("uhc_enable", <<dev>>, env.ret)
         IN  IF env.ret < 0 THEN Result(dev, GB_OP_UNKNOWN_ERROR, NoResp, <<call>>)
             ELSE Result(dev, GB_OP_SUCCESS, NoResp, <<call>>)

\* Mutant: the request's size is not looked at.
gb_usb_hub_control_any_size(dev, request, env) ==
    LET response ==
            gb_operation_alloc_response(sizeof("gb_usb_hub_control_response")
                                        + sys_le16_to_cpu(request.wLength))
    IN  IF ~env.alloc THEN Result(dev, GB_OP_NO_MEMORY, NoResp, <<>>)
        ELSE Result(dev, GB_OP_UNKNOWN_ERROR, response, <<>>)

\* Mutant: the failure is reported before any response is allocated.
gb_usb_hub_control_fails_first(dev, request, env) ==
    IF request.size < sizeof("gb_usb_hub_control_request")
    THEN Result(dev, GB_OP_INVALID, NoResp, <<>>)
    ELSE Result(dev, GB_OP_UNKNOWN_ERROR, NoResp, <<>>)

gb_usb_hub_control(dev, request, env) ==
    IF request.size < sizeof("gb_usb_hub_control_request")
    THEN Result(dev, GB_OP_INVALID, NoResp, <<>>)
    ELSE
    LET wLength == sys_le16_to_cpu(request.wLength)
        response ==
            gb_operation_alloc_response(sizeof("gb_usb_hub_control_response") + wLength)
        \* ret = -ENOTSUP: the root hub control transfer is not implemented
        ret == -134
    IN  IF ~env.alloc THEN Result(dev, GB_OP_NO_MEMORY, NoResp, <<>>)
        ELSE IF ret # 0 THEN Result(dev, GB_OP_UNKNOWN_ERROR, response, <<>>)
        ELSE Result(dev, GB_OP_SUCCESS, response, <<>>)

gb_usb_handler(type, dev, opr, env) ==
    CASE type = "GB_USB_TYPE_PROTOCOL_VERSION" -> gb_usb_protocol_version(dev, opr, env)
      [] type = "GB_USB_TYPE_HCD_STOP" -> gb_usb_hcd_stop(dev, opr, env)
      [] type = "GB_USB_TYPE_HCD_START" -> gb_usb_hcd_start(dev, opr, env)
      [] type = "GB_USB_TYPE_HUB_CONTROL" -> gb_usb_hub_control(dev, opr, env)
      [] OTHER -> Result(dev, GB_OP_INVALID, NoResp, <<>>)

\* gb_usb_init: the device handle it leaves in usbdev and its return value.
\* dt_dev is the host controller the devicetree of the build names, "NULL" for none.
gb_usb_init(dt_dev, ready) ==
    [usbdev |-> dt_dev, ret |-> IF dt_dev = "NULL" \/ ~ready THEN -19 ELSE 0]

\* gb_usb_exit: the calls it makes; usbdev is not written.
gb_usb_exit(dev) ==
    IF dev # "NULL" THEN <<ApiCall("uhc_disable", <<dev>>, 0)>> ELSE <<>>

(***************************************************************************)
(* Requests and environment outcomes the model draws from.                 *)
(***************************************************************************)
EmptyRequest == [size |-> 0]

\* GB_MAX_PAYLOAD_SIZE of the builds considered.
PayloadSizes == {515, 2052}

HostRets == {0, -5, -22}

HostWords == {<<2304, 0, 0, 0>>, <<16909060, 1, 2, 3>>}

HostProps ==
    {[host_caps |-> {"bus_4_bit_support", "bus_8_bit_support", "high_speed_support",
                     "vol_330_support"},
      f_min |-> 400000, f_max |-> 25000000],
     [host_caps |-> {}, f_min |-> 0, f_max |-> 400000]}

\* What the environment answers to one SDIO handler: the response allocator, the
\* host call's return value, the response words and the properties of the host.
Env(alloc, ret, words, props) ==
    [alloc |-> alloc, ret |-> ret, words |-> words, props |-> props,
     max_payload |-> max_payload]

AnyWords == CHOOSE w \in HostWords : TRUE

AnyProps == CHOOSE p \in HostProps : TRUE

SetIosRequests ==
    {[size |-> sizeof("gb_sdio_set_ios_request") - 1, clock |-> sys_cpu_to_le32(0),
      bus_mode |-> "?", power_mode |-> "?", bus_width |-> "?", timing |-> "?",
      signal_voltage |-> "?"],
     [size |-> sizeof("gb_sdio_set_ios_request"), clock |-> sys_cpu_to_le32(400000),
      bus_mode |-> "GB_SDIO_BUSMODE_OPENDRAIN", power_mode |-> "GB_SDIO_POWER_UP",
      bus_width |-> "GB_SDIO_BUS_WIDTH_4", timing |-> "GB_SDIO_TIMING_SD_HS",
      signal_voltage |-> "GB_SDIO_SIGNAL_VOLTAGE_180"],
     [size |-> sizeof("gb_sdio_set_ios_request"), clock |-> sys_cpu_to_le32(25000000),
      bus_mode |-> "?", power_mode |-> "?", bus_width |-> "?", timing |-> "?",
      signal_voltage |-> "?"]}

SdOpcodes == {17, 24}

CmdFlagSets ==
    {{}, {"GB_SDIO_RSP_PRESENT"}, {"GB_SDIO_RSP_PRESENT", "GB_SDIO_RSP_136"},
     {"GB_SDIO_RSP_PRESENT", "GB_SDIO_RSP_BUSY"}}

CommandRequests ==
    {[size |-> sizeof("gb_sdio_command_request") - 1, cmd |-> 17, cmd_flags |-> {},
      cmd_arg |-> sys_cpu_to_le32(0), data_blocks |-> sys_cpu_to_le16(1)]}
    \cup
    [size : {sizeof("gb_sdio_command_request")}, cmd : SdOpcodes, cmd_flags : CmdFlagSets,
     cmd_arg : {sys_cpu_to_le32(16909060)},
     data_blocks : {sys_cpu_to_le16(0), sys_cpu_to_le16(256)}]

TransferRequests ==
    {[size |-> sizeof("gb_sdio_transfer_request") - 1, data_flags |-> {"GB_SDIO_DATA_WRITE"},
      data_blocks |-> sys_cpu_to_le16(1), data_blksz |-> sys_cpu_to_le16(512)]}
    \cup
    [size : {sizeof("gb_sdio_transfer_request")},
     data_flags : SUBSET {"GB_SDIO_DATA_WRITE", "GB_SDIO_DATA_READ"},
     data_blocks : {sys_cpu_to_le16(1), sys_cpu_to_le16(256)},
     data_blksz : {sys_cpu_to_le16(512)}]

\* Operation types that are not cases of gb_sdio_handler's switch.
SdioOtherTypes == {"GB_SDIO_TYPE_EVENT", "0x00", "0x7f"}

\* What the environment answers to one HID handler: the response allocator, the
\* capability's return value, the value of get_report_length, the descriptor.
HidEnv(alloc, ret, len, desc) == [alloc |-> alloc, ret |-> ret, len |-> len, desc |-> desc]

CapRets == {0, -5}

\* Values an int (*get_report_length)() may return.
ReportLengths == {-5, 0, 1, 8, 65535, 65536}

HidDescriptors ==
    {[length |-> 10, report_desc_length |-> n, hid_version |-> 273, product_id |-> 4660,
      vendor_id |-> 6353, country_code |-> 0] : n \in {34, 52}}

AnyDescriptor == CHOOSE d \in HidDescriptors : TRUE

\* Report types GB_HID_INPUT_REPORT and GB_HID_FEATURE_REPORT, report ids 0 and others.
GetReportRequests ==
    {[size |-> sizeof("gb_hid_get_report_request") - 1, report_type |-> 0, report_id |-> 0]}
    \cup [size : {sizeof("gb_hid_get_report_request")}, report_type : {0, 2},
          report_id : {0, 1, 255}]

SetReportRequests ==
    {[size |-> sizeof("gb_hid_set_report_request") - 1, report_type |-> 1, report_id |-> 0]}
    \cup [size : {sizeof("gb_hid_set_report_request"), 10}, report_type : {1},
          report_id : {0, 1}]

HidOtherTypes == {"GB_HID_TYPE_IRQ_EVENT", "0x00", "0x7f"}

HidApiEntries ==
    {"get_descriptor", "get_report_descriptor", "power_on", "power_off", "get_report",
     "get_report_length", "get_max_report_length", "set_report", "register_callback",
     "unregister_callback"}

\* The api tables considered: none, the full one, and the full one less one entry.
HidApis == {{"NULL"}, HidApiEntries} \cup {HidApiEntries \ {e} : e \in HidApiEntries}

HubControlRequests ==
    {[size |-> sizeof("gb_usb_hub_control_request") - 1, typeReq |-> sys_cpu_to_le16(0),
      wValue |-> sys_cpu_to_le16(0), wIndex |-> sys_cpu_to_le16(0),
      wLength |-> sys_cpu_to_le16(4)]}
    \cup [size : {sizeof("gb_usb_hub_control_request")},
          typeReq : {sys_cpu_to_le16(40966), sys_cpu_to_le16(8963)},
          wValue : {sys_cpu_to_le16(10496)}, wIndex : {sys_cpu_to_le16(0)},
          wLength : {sys_cpu_to_le16(0), sys_cpu_to_le16(4), sys_cpu_to_le16(300)}]

\* Values uhc_enable and uhc_disable may return.
UhcRets == {0, 1, -5, -22}

UsbOtherTypes == {"0x00", "0x05", "0x7f"}

(***************************************************************************)
(* History of the deferred-command slot.                                   *)
(***************************************************************************)
NoKey == <<>>

IsDeferring(type, request) ==
    /\ type = "GB_SDIO_TYPE_COMMAND"
    /\ request.size >= sizeof("gb_sdio_command_request")
    /\ sys_le16_to_cpu(request.data_blocks) > 0

\* alloc_failed: the handler asked for a response and the allocator returned NULL.
Last(op, req, r, pre, pre_xfer, alloc_failed) ==
    [op |-> op, req |-> req, status |-> r.status, resp |-> r.resp, calls |-> r.calls,
     pre |-> pre, pre_xfer |-> pre_xfer, alloc_failed |-> alloc_failed]

\* The handler reaches its response allocation: it has a response when the
\* allocator gives it one.
AllocFailed(env, allocating) == ~env.alloc /\ allocating.resp # NoResp

(***************************************************************************)
(* One inbound SDIO operation, dispatched by gb_sdio_handler.              *)
(***************************************************************************)
SdioHandle(type, req, env) ==
    LET r == gb_sdio_handler(type, sdio, req, env)
    IN  /\ driver = "sdio"
        /\ sdio' = r.info
        /\ last' = Last(type, req, r, sdio, ranSince,
                         AllocFailed(env, gb_sdio_handler(type, sdio, req,
                                                          [env EXCEPT !.alloc = TRUE])))
        /\ IF IsDeferring(type, req)
           THEN /\ lastDefer' = CmdKey(sdio_decode_command(req))
                /\ superseded' =
                      /\ lastDefer # NoKey
                      /\ lastDefer # CmdKey(sdio_decode_command(req))
                      /\ ranSince = "none"
                /\ ranSince' = "none"
           ELSE IF type = "GB_SDIO_TYPE_TRANSFER"
           THEN /\ ranSince' = IF r.calls # <<>> \/ ranSince = "ran" THEN "ran" ELSE "handled"
                /\ UNCHANGED <<lastDefer, superseded>>
           ELSE UNCHANGED <<lastDefer, superseded, ranSince>>
        /\ UNCHANGED <<driver, max_payload, phase, hidVars, usbdev, pipeVars, peer>>
        /\ UNCHANGED hid_res

SdioProtocolVersion ==
    \E alloc \in BOOLEAN :
        SdioHandle("GB_SDIO_TYPE_PROTOCOL_VERSION", EmptyRequest,
                   Env(alloc, 0, AnyWords, AnyProps))

SdioGetCapabilities ==
    \E alloc \in BOOLEAN, ret \in HostRets, props \in HostProps :
        SdioHandle("GB_SDIO_TYPE_GET_CAPABILITIES", EmptyRequest,
                   Env(alloc, ret, AnyWords, props))

SdioSetIos ==
    \E req \in SetIosRequests, ret \in HostRets :
        SdioHandle("GB_SDIO_TYPE_SET_IOS", req, Env(TRUE, ret, AnyWords, AnyProps))

SdioCommand ==
    \E req \in CommandRequests, alloc \in BOOLEAN, ret \in HostRets, words \in HostWords :
        SdioHandle("GB_SDIO_TYPE_COMMAND", req, Env(alloc, ret, words, AnyProps))

SdioTransfer ==
    \E req \in TransferRequests, alloc \in BOOLEAN, ret \in HostRets, words \in HostWords :
        SdioHandle("GB_SDIO_TYPE_TRANSFER", req, Env(alloc, ret, words, AnyProps))

SdioInvalidType ==
    \E type \in SdioOtherTypes :
        SdioHandle(type, EmptyRequest, Env(TRUE, 0, AnyWords, AnyProps))

(***************************************************************************)
(* One inbound SDIO operation on the CPort of the second instance: the     *)
(* handler works on the bundle->priv of that operation's bundle.           *)
(***************************************************************************)
\* Mutant: the pending command and its flag are kept in one place for all
\* instances.
PeerHandle_shared_slot(type, req, env) ==
    LET r == gb_sdio_handler(type, peer, req, env)
    IN  /\ driver = "sdio"
        /\ peer # NullInfo
        /\ peer' = r.info
        /\ last' = Last(type, req, r, peer, ranSince,
                         AllocFailed(env, gb_sdio_handler(type, peer, req,
                                                          [env EXCEPT !.alloc = TRUE])))
        /\ sdio' = [sdio EXCEPT !.deferred_cmd = r.info.deferred_cmd,
                                 !.has_deferred_cmd = r.info.has_deferred_cmd]
        /\ UNCHANGED <<driver, max_payload, phase, lastDefer, superseded, ranSince,
                       hidVars, usbdev, pipeVars, hid_res>>

PeerHandle(type, req, env) ==
    LET r == gb_sdio_handler(type, peer, req, env)
    IN  /\ driver = "sdio"
        /\ peer # NullInfo
        /\ peer' = r.info
        /\ last' = Last(type, req, r, peer, ranSince,
                         AllocFailed(env, gb_sdio_handler(type, peer, req,
                                                          [env EXCEPT !.alloc = TRUE])))
        /\ UNCHANGED <<driver, max_payload, phase, sdio, lastDefer, superseded, ranSince,
                       hidVars, usbdev, pipeVars, hid_res>>

\* The operations arriving on the two CPorts: commands without response flags,
\* deferring and immediate, and single-block transfers in both directions.
TwoInstanceOperations ==
    {<<"GB_SDIO_TYPE_COMMAND", req>> :
        req \in {c \in CommandRequests :
                    c.size = sizeof("gb_sdio_command_request") /\ c.cmd_flags = {}}}
    \cup
    {<<"GB_SDIO_TYPE_TRANSFER", req>> :
        req \in {t \in TransferRequests :
                    /\ t.size = sizeof("gb_sdio_transfer_request")
                    /\ t.data_blocks = sys_cpu_to_le16(1)
                    /\ t.data_flags # {}}}

\* One operation handled on the CPort of either instance.
TwoInstanceOperation ==
    \E cport \in {1, 2}, o \in TwoInstanceOperations, alloc \in BOOLEAN, ret \in {0, -5} :
        IF cport = 1
        THEN SdioHandle(o[1], o[2], Env(alloc, ret, AnyWords, AnyProps))
        ELSE PeerHandle(o[1], o[2], Env(alloc, ret, AnyWords, AnyProps))

(***************************************************************************)
(* One inbound HID operation, dispatched by gb_hid_handler.                *)
(***************************************************************************)
HidHandle(type, req, env) ==
    LET r == gb_hid_handler(type, hid, hid_api, req, env)
    IN  /\ driver = "hid"
        /\ hid' = r.info
        /\ last' = Last(type, req, r, hid, desc_cached,
                         AllocFailed(env, gb_hid_handler(type, hid, hid_api, req,
                                                         [env EXCEPT !.alloc = TRUE])))
        /\ desc_cached' =
              (desc_cached \/ (type = "GB_HID_TYPE_GET_DESC" /\ r.status = GB_OP_SUCCESS))
        /\ UNCHANGED <<driver, max_payload, phase, sdioVars, hid_api, usbdev, pipeVars>>
        /\ UNCHANGED hid_res

HidProtocolVersion ==
    \E alloc \in BOOLEAN :
        HidHandle("GB_HID_TYPE_PROTOCOL_VERSION", EmptyRequest,
                  HidEnv(alloc, 0, 0, AnyDescriptor))

HidGetDescriptor ==
    \E alloc \in BOOLEAN, ret \in CapRets, desc \in HidDescriptors :
        HidHandle("GB_HID_TYPE_GET_DESC", EmptyRequest, HidEnv(alloc, ret, 0, desc))

HidGetReportDescriptor ==
    \E alloc \in BOOLEAN, ret \in CapRets :
        HidHandle("GB_HID_TYPE_GET_REPORT_DESC", EmptyRequest,
                  HidEnv(alloc, ret, 0, AnyDescriptor))

HidPowerOn ==
    \E ret \in CapRets :
        HidHandle("GB_HID_TYPE_PWR_ON", EmptyRequest, HidEnv(TRUE, ret, 0, AnyDescriptor))

HidPowerOff ==
    \E ret \in CapRets :
        HidHandle("GB_HID_TYPE_PWR_OFF", EmptyRequest, HidEnv(TRUE, ret, 0, AnyDescriptor))

HidGetReport ==
    \E req \in GetReportRequests, alloc \in BOOLEAN, ret \in CapRets, len \in ReportLengths :
        HidHandle("GB_HID_TYPE_GET_REPORT", req, HidEnv(alloc, ret, len, AnyDescriptor))

HidSetReport ==
    \E req \in SetReportRequests, ret \in CapRets, len \in ReportLengths :
        HidHandle("GB_HID_TYPE_SET_REPORT", req, HidEnv(TRUE, ret, len, AnyDescriptor))

HidInvalidType ==
    \E type \in HidOtherTypes :
        HidHandle(type, EmptyRequest, HidEnv(TRUE, 0, 0, AnyDescriptor))

(***************************************************************************)
(* One inbound USB operation, dispatched by gb_usb_handler.                *)
(***************************************************************************)
UsbHandle(type, req, env) ==
    LET r == gb_usb_handler(type, usbdev, req, env)
    IN  /\ driver = "usb"
        /\ usbdev' = r.info
        /\ last' = Last(type, req, r, usbdev, "none",
                         AllocFailed(env, gb_usb_handler(type, usbdev, req,
                                                         [env EXCEPT !.alloc = TRUE])))
        /\ UNCHANGED <<driver, max_payload, phase, sdioVars, hidVars, pipeVars>>
        /\ UNCHANGED hid_res

UsbProtocolVersion ==
    \E alloc \in BOOLEAN :
        UsbHandle("GB_USB_TYPE_PROTOCOL_VERSION", EmptyRequest,
                  HidEnv(alloc, 0, 0, AnyDescriptor))

UsbHcdStop ==
    \E ret \in UhcRets :
        UsbHandle("GB_USB_TYPE_HCD_STOP", EmptyRequest, HidEnv(TRUE, ret, 0, AnyDescriptor))

UsbHcdStart ==
    \E ret \in UhcRets :
        UsbHandle("GB_USB_TYPE_HCD_START", EmptyRequest, HidEnv(TRUE, ret, 0, AnyDescriptor))

UsbHubControl ==
    \E req \in HubControlRequests, alloc \in BOOLEAN :
        UsbHandle("GB_USB_TYPE_HUB_CONTROL", req, HidEnv(alloc, 0, 0, AnyDescriptor))

UsbInvalidType ==
    \E type \in UsbOtherTypes :
        UsbHandle(type, EmptyRequest, HidEnv(TRUE, 0, 0, AnyDescriptor))

(***************************************************************************)
(* The HID report pipeline's steps.                                        *)
(***************************************************************************)
\* Reports the HID driver delivers in one behaviour.
MaxReports == 7

\* Lengths of the reports the HID driver delivers.
ReportSizes == {8, 257}

NoMsg == [report_type |-> 0, len |-> 0, seq |-> 0]

\* register_callback was there for gb_hid_init to call.
CallbackRegistered == hid_res.callback

\* report_proc_thread exists and has not been aborted.
ThreadRunning == hid_res.thread = "running"

PipeLast(op, req, status, pre) ==
    [op |-> op, req |-> req, status |-> status, resp |-> NoResp, calls |-> <<>>,
     pre |-> pre, pre_xfer |-> "none", alloc_failed |-> FALSE]

\* Mutant: the callback keeps the length of the report in the context.
HidEventCallback_caches_length ==
    \E len \in ReportSizes :
        LET msg == [report_type |-> 0, len |-> len, seq |-> reports + 1]
            r == hid_event_callback_routine(data_queue, msg)
        IN  /\ driver = "hid"
            /\ CallbackRegistered
            /\ reports < MaxReports
            /\ IF hid_res.queue_storage = "allocated"
               THEN data_queue' = r.queue /\ UNCHANGED hid_res
               ELSE \* a put into storage that was freed or never there: anything
                    /\ data_queue' \in {data_queue, r.queue}
                    /\ hid_res' = [hid_res EXCEPT !.stale_put = TRUE]
            /\ reports' = reports + 1
            /\ dropped' = IF r.ret = 0 /\ Len(data_queue) >= MAX_REPORT_OPERATIONS
                          THEN dropped \cup {msg.seq} ELSE dropped
            /\ last' = PipeLast("hid_event_callback_routine", msg, r.ret, data_queue)
            /\ hid' = [hid EXCEPT !.report_desc_len = len]
            /\ UNCHANGED <<driver, max_payload, phase, sdioVars, hid_api, desc_cached, usbdev,
                           thread_pc, thread_msg, sent>>

\* The HID driver calls hid_event_callback_routine with a report.
HidEventCallback ==
    \E len \in ReportSizes :
        LET msg == [report_type |-> 0, len |-> len, seq |-> reports + 1]
            r == hid_event_callback_routine(data_queue, msg)
        IN  /\ driver = "hid"
            /\ CallbackRegistered
            /\ reports < MaxReports
            /\ IF hid_res.queue_storage = "allocated"
               THEN data_queue' = r.queue /\ UNCHANGED hid_res
               ELSE \* a put into storage that was freed or never there: anything
                    /\ data_queue' \in {data_queue, r.queue}
                    /\ hid_res' = [hid_res EXCEPT !.stale_put = TRUE]
            /\ reports' = reports + 1
            /\ dropped' = IF r.ret = 0 /\ Len(data_queue) >= MAX_REPORT_OPERATIONS
                          THEN dropped \cup {msg.seq} ELSE dropped
            /\ last' = PipeLast("hid_event_callback_routine", msg, r.ret, data_queue)
            /\ UNCHANGED <<driver, max_payload, phase, sdioVars, hidVars, usbdev, thread_pc,
                           thread_msg, sent>>

\* Mutant: the thread takes the newest message of the queue.
ReportProcGet_newest_first ==
    /\ driver = "hid"
    /\ ThreadRunning
    /\ thread_pc = "get"
    /\ data_queue # <<>>
    /\ thread_msg' = data_queue[Len(data_queue)]
    /\ data_queue' = SubSeq(data_queue, 1, Len(data_queue) - 1)
    /\ thread_pc' = "create"
    /\ last' = PipeLast("k_msgq_get", Head(data_queue), 0, data_queue)
    /\ UNCHANGED <<driver, max_payload, phase, sdioVars, hidVars, usbdev, reports, dropped, sent>>
    /\ UNCHANGED hid_res

\* report_proc_thread: k_msgq_get(&hid_info->data_queue, &msg, K_FOREVER).
ReportProcGet ==
    /\ driver = "hid"
    /\ ThreadRunning
    /\ thread_pc = "get"
    /\ data_queue # <<>>
    /\ thread_msg' = Head(data_queue)
    /\ data_queue' = Tail(data_queue)
    /\ thread_pc' = "create"
    /\ last' = PipeLast("k_msgq_get", Head(data_queue), 0, data_queue)
    /\ UNCHANGED <<driver, max_payload, phase, sdioVars, hidVars, usbdev, reports, dropped, sent>>
    /\ UNCHANGED hid_res

\* Mutant: the operation is sized to the message buffer, not to the report.
ReportProcCreate_buffer_sized ==
    \E created \in BOOLEAN :
        /\ driver = "hid"
        /\ ThreadRunning
        /\ thread_pc = "create"
        /\ thread_pc' = IF created THEN "send" ELSE "get"
        /\ last' = PipeLast("gb_operation_create",
                            [cport |-> hid.cport, type |-> "GB_HID_TYPE_IRQ_EVENT",
                             size |-> HID_MSG_DATA_SIZE, seq |-> thread_msg.seq],
                            IF created THEN 0 ELSE -12, data_queue)
        /\ UNCHANGED <<driver, max_payload, phase, sdioVars, hidVars, usbdev, data_queue,
                       thread_msg, reports, dropped, sent>>
        /\ UNCHANGED hid_res

\* report_proc_thread: gb_operation_create(cport, GB_HID_TYPE_IRQ_EVENT, msg.len);
\* no operation: log and continue with the next message.
ReportProcCreate ==
    \E created \in BOOLEAN :
        /\ driver = "hid"
        /\ ThreadRunning
        /\ thread_pc = "create"
        /\ thread_pc' = IF created THEN "send" ELSE "get"
        /\ last' = PipeLast("gb_operation_create",
                            [cport |-> hid.cport, type |-> "GB_HID_TYPE_IRQ_EVENT",
                             size |-> thread_msg.len, seq |-> thread_msg.seq],
                            IF created THEN 0 ELSE -12, data_queue)
        /\ UNCHANGED <<driver, max_payload, phase, sdioVars, hidVars, usbdev, data_queue,
                       thread_msg, reports, dropped, sent>>
        /\ UNCHANGED hid_res

\* Mutant: a failed send is tried again with the same message.
ReportProcSend_retries ==
    \E ret \in CapRets :
        /\ driver = "hid"
        /\ ThreadRunning
        /\ thread_pc = "send"
        /\ thread_pc' = IF ret # 0 THEN "send" ELSE "get"
        /\ sent' = IF ret = 0 THEN Append(sent, thread_msg.seq) ELSE sent
        /\ last' = [PipeLast("gb_operation_send_request",
                             [cport |-> hid.cport, type |-> "GB_HID_TYPE_IRQ_EVENT",
                              size |-> thread_msg.len, seq |-> thread_msg.seq],
                             ret, data_queue)
                        EXCEPT !.calls =
                            IF ret # 0
                            THEN <<ApiCall("gb_operation_destroy", <<thread_msg.seq>>, 0)>>
                            ELSE <<>>]
        /\ UNCHANGED <<driver, max_payload, phase, sdioVars, hidVars, usbdev, data_queue,
                       thread_msg, reports, dropped>>
        /\ UNCHANGED hid_res

\* report_proc_thread: gb_operation_send_request(operation, NULL, false); on an
\* error the operation is destroyed, and either way the loop starts over.
ReportProcSend ==
    \E ret \in CapRets :
        /\ driver = "hid"
        /\ ThreadRunning
        /\ thread_pc = "send"
        /\ thread_pc' = "get"
        /\ sent' = IF ret = 0 THEN Append(sent, thread_msg.seq) ELSE sent
        /\ last' = [PipeLast("gb_operation_send_request",
                             [cport |-> hid.cport, type |-> "GB_HID_TYPE_IRQ_EVENT",
                              size |-> thread_msg.len, seq |-> thread_msg.seq],
                             ret, data_queue)
                        EXCEPT !.calls =
                            IF ret # 0
                            THEN <<ApiCall("gb_operation_destroy", <<thread_msg.seq>>, 0)>>
                            ELSE <<>>]
        /\ UNCHANGED <<driver, max_payload, phase, sdioVars, hidVars, usbdev, data_queue,
                       thread_msg, reports, dropped>>
        /\ UNCHANGED hid_res

(***************************************************************************)
(* Specifications.  Init is the bundle after its driver's init returned 0. *)
(***************************************************************************)
NoLast ==
    [op |-> "none", req |-> EmptyRequest, status |-> "none", resp |-> NoResp,
     calls |-> <<>>, pre |-> "none", pre_xfer |-> "none", alloc_failed |-> FALSE]

\* The outcomes with which gb_hid_init returns 0.
InitSucceeds(max_len) ==
    [ctx_alloc |-> TRUE, max_len |-> max_len, buf_alloc |-> TRUE, reg_ret |-> 0]

\* The bundle and its adapter once init has returned 0.
InitBundle(d) ==
    /\ driver = d
    /\ sdio = IF d = "sdio" THEN gb_sdio_init(1) ELSE NullInfo
    /\ lastDefer = NoKey
    /\ superseded = FALSE
    /\ ranSince = "none"
    /\ IF d = "hid"
       THEN \E dev \in {"NULL", "hid"}, api \in HidApis, max_len \in {0, 64} :
                /\ dev = "NULL" => api = {"NULL"} /\ max_len = 0
                /\ (api = {"NULL"} \/ "get_max_report_length" \notin api) => max_len = 0
                /\ hid_api = api
                /\ hid = gb_hid_init(1, dev, api, max_len)
                /\ hid_res = gb_hid_init_call(1, dev, api, InitSucceeds(max_len)).res
       ELSE hid = NullInfo /\ hid_api = {"NULL"} /\ hid_res = HidNoResources
    /\ phase = "active"
    /\ desc_cached = FALSE
    /\ usbdev = IF d = "usb" THEN "usb0" ELSE "NULL"
    /\ data_queue = <<>>
    /\ thread_pc = "get"
    /\ thread_msg = NoMsg
    /\ reports = 0
    /\ dropped = {}
    /\ sent = <<>>

InitDriver(d) == InitBundle(d) /\ peer = NullInfo /\ last = NoLast

NextSdio ==
    \/ SdioProtocolVersion
    \/ SdioGetCapabilities
    \/ SdioSetIos
    \/ SdioCommand
    \/ SdioTransfer
    \/ SdioInvalidType

NextHid ==
    \/ HidProtocolVersion
    \/ HidGetDescriptor
    \/ HidGetReportDescriptor
    \/ HidPowerOn
    \/ HidPowerOff
    \/ HidGetReport
    \/ HidSetReport
    \/ HidInvalidType

NextUsb ==
    \/ UsbProtocolVersion
    \/ UsbHcdStop
    \/ UsbHcdStart
    \/ UsbHubControl
    \/ UsbInvalidType

NextPipe ==
    \/ HidEventCallback
    \/ ReportProcGet
    \/ ReportProcCreate
    \/ ReportProcSend

\* The SDIO adapter: inbound operations on its CPort.
InitSdio == InitDriver("sdio") /\ max_payload \in PayloadSizes

SpecSdio == InitSdio /\ [][NextSdio]_vars

\* Two SDIO instances, on CPorts 1 and 2, each with its own bundle: commands and
\* transfers arrive on both in any order.
InitTwo ==
    /\ InitBundle("sdio")
    /\ peer = gb_sdio_init(2)
    /\ max_payload \in {2052}
    /\ last = NoLast

SpecTwo == InitTwo /\ [][TwoInstanceOperation]_vars

\* The HID adapter: inbound operations on its CPort.
InitHid == InitDriver("hid") /\ max_payload \in {2052}

SpecHid == InitHid /\ [][NextHid]_vars

\* The HID adapter's report pipeline: the driver's callbacks and the thread.
SpecPipe == InitHid /\ [][NextPipe]_vars

\* The HID adapter of a device whose api table has every entry, after init;
\* no step has been taken yet.
InitHidFullApi ==
    /\ InitBundle("hid")
    /\ peer = NullInfo
    /\ hid_api = HidApiEntries
    /\ max_payload \in {2052}
    /\ last = PipeLast("none", EmptyRequest, 0, <<>>)

\* The pipeline with report_proc_thread scheduled whenever it can take a step;
\* each of its steps moves thread_pc, one of pipeVars.
SpecPipeFair ==
    /\ InitHidFullApi
    /\ [][NextPipe]_vars
    /\ WF_pipeVars(ReportProcGet)
    /\ WF_pipeVars(ReportProcCreate)
    /\ WF_pipeVars(ReportProcSend)

\* The pipeline running while get_descriptor and get_report_descriptor are
\* handled on the adapter's CPort.
SpecHidConcurrent ==
    InitHidFullApi /\ [][NextPipe \/ HidGetDescriptor \/ HidGetReportDescriptor]_vars

\* Inbound operations on a CPort with any of the three drivers registered.
Init ==
    /\ \E d \in {"hid", "sdio", "usb"} : InitDriver(d)
    /\ max_payload \in {2052}

Next == NextSdio \/ NextHid \/ NextUsb

Spec == Init /\ [][Next]_vars

(***************************************************************************)
(* The HID adapter from gb_hid_init to gb_hid_exit, with its report         *)
(* pipeline: the calls the adapter contract has the transport make.         *)
(***************************************************************************)
\* A driver registered on the bundle whose init has not run yet.
InitRegistered(d) ==
    /\ driver = d
    /\ phase = "registered"
    /\ sdio = NullInfo
    /\ peer = NullInfo
    /\ lastDefer = NoKey
    /\ superseded = FALSE
    /\ ranSince = "none"
    /\ hid = NullInfo
    /\ hid_api \in (IF d = "hid" THEN HidApis ELSE {{"NULL"}})
    /\ hid_res = HidNoResources
    /\ desc_cached = FALSE
    /\ usbdev = "NULL"
    /\ data_queue = <<>>
    /\ thread_pc = "get"
    /\ thread_msg = NoMsg
    /\ reports = 0
    /\ dropped = {}
    /\ sent = <<>>
    /\ last = NoLast
    /\ max_payload \in {2052}

\* Outcomes of the calls gb_hid_init makes.
HidInitEnvs ==
    [ctx_alloc : BOOLEAN, max_len : {-5, 0, 64}, buf_alloc : BOOLEAN, reg_ret : {0, -5}]

\* device_get_binding(CONFIG_GREYBUS_HID_DEVICE_NAME): a device with an api table
\* is there; without a table the device may be missing.
HidBindings == IF hid_api = {"NULL"} THEN {"NULL", "hid"} ELSE {"hid"}

HidInit ==
    \E dev \in HidBindings, env \in HidInitEnvs :
        LET c == gb_hid_init_call(1, dev, hid_api, env)
        IN  /\ driver = "hid"
            /\ phase = "registered"
            /\ hid' = c.info
            /\ hid_res' = c.res
            /\ phase' = IF c.ret = 0 THEN "active" ELSE "failed"
            /\ last' = PipeLast("gb_hid_init", env, c.ret, hid_res)
            /\ UNCHANGED <<driver, max_payload, sdioVars, hid_api, desc_cached, usbdev,
                           pipeVars>>

HidExit ==
    /\ driver = "hid"
    /\ phase = "active"
    /\ hid_res' = gb_hid_exit(hid, hid_api, hid_res)
    /\ phase' = "exited"
    /\ last' = PipeLast("gb_hid_exit", EmptyRequest, 0, hid_res)
    /\ UNCHANGED <<driver, max_payload, sdioVars, hidVars, usbdev, pipeVars>>

NextHidLife ==
    \/ HidInit
    \/ HidEventCallback
    \/ ReportProcGet
    \/ ReportProcCreate
    \/ ReportProcSend
    \/ HidExit

SpecHidLife == InitRegistered("hid") /\ [][NextHidLife]_vars

(***************************************************************************)
(* The USB adapter: init, exit, and the operations its handler is handed   *)
(* whether or not init found the host controller.                          *)
(***************************************************************************)
UsbInit ==
    \E dt_dev \in {"NULL", "usb0"}, ready \in BOOLEAN :
        LET c == gb_usb_init(dt_dev, ready)
        IN  /\ driver = "usb"
            /\ phase = "registered"
            /\ usbdev' = c.usbdev
            /\ phase' = IF c.ret = 0 THEN "active" ELSE "failed"
            /\ last' = PipeLast("gb_usb_init", [dt_dev |-> dt_dev, ready |-> ready],
                                c.ret, usbdev)
            /\ UNCHANGED <<driver, max_payload, sdioVars, hidVars, pipeVars, hid_res>>

UsbExit ==
    /\ driver = "usb"
    /\ phase = "active"
    /\ phase' = "exited"
    /\ last' = [PipeLast("gb_usb_exit", EmptyRequest, 0, usbdev)
                    EXCEPT !.calls = gb_usb_exit(usbdev)]
    /\ UNCHANGED <<driver, max_payload, sdioVars, hidVars, usbdev, pipeVars, hid_res>>

NextUsbLife == UsbInit \/ NextUsb \/ UsbExit

SpecUsb == InitRegistered("usb") /\ [][NextUsbLife]_vars

(***************************************************************************)
(* The drivers as registered: what each adapter hands to                   *)
(* gb_register_driver, and the transport's use of it.                      *)
(***************************************************************************)
\* struct gb_driver of each adapter: the function each member names, "NULL" for
\* a member its initialiser leaves out.
gb_hid_driver == [init |-> "NULL", exit |-> "NULL", op_handler |-> "gb_hid_handler"]

sdio_driver ==
    [init |-> "gb_sdio_init", exit |-> "gb_sdio_exit", op_handler |-> "gb_sdio_handler"]

usb_driver ==
    [init |-> "gb_usb_init", exit |-> "gb_usb_exit", op_handler |-> "gb_usb_handler"]

\* gb_hid_register, gb_sdio_register, gb_usb_register: the structure handed over.
RegisteredDriver ==
    CASE driver = "hid" -> gb_hid_driver
      [] driver = "sdio" -> sdio_driver
      [] driver = "usb" -> usb_driver

\* gb_sdio_init: its return value and what it leaves in bundle->priv.
gb_sdio_init_call(cport, dev, ready, alloc) ==
    IF dev = "NULL" THEN [ret |-> -19, info |-> NullInfo]
    ELSE IF ~ready THEN [ret |-> -19, info |-> NullInfo]
    ELSE IF ~alloc THEN [ret |-> -12, info |-> NullInfo]
    ELSE [ret |-> 0, info |-> gb_sdio_init(cport)]

\* gb_sdio_exit: frees the context; bundle->priv afterwards.
gb_sdio_exit(info) == NullInfo

SdioInit ==
    \E dev \in {"NULL", "sdhc"}, ready \in BOOLEAN, alloc \in BOOLEAN :
        LET c == gb_sdio_init_call(1, dev, ready, alloc)
        IN  /\ driver = "sdio"
            /\ phase = "registered"
            /\ sdio' = c.info
            /\ phase' = IF c.ret = 0 THEN "active" ELSE "failed"
            /\ last' = PipeLast("gb_sdio_init",
                                [dev |-> dev, ready |-> ready, alloc |-> alloc],
                                c.ret, sdio)
            /\ UNCHANGED <<driver, max_payload, peer, lastDefer, superseded, ranSince, hidVars,
                           usbdev, pipeVars, hid_res>>

SdioExit ==
    /\ driver = "sdio"
    /\ phase = "active"
    /\ sdio' = gb_sdio_exit(sdio)
    /\ phase' = "exited"
    /\ last' = PipeLast("gb_sdio_exit", EmptyRequest, 0, sdio)
    /\ UNCHANGED <<driver, max_payload, peer, lastDefer, superseded, ranSince, hidVars,
                   usbdev, pipeVars, hid_res>>

\* The transport has no function to call for a member that is NULL.
NoInit ==
    /\ phase = "registered"
    /\ phase' = "active"
    /\ last' = PipeLast("no init", EmptyRequest, 0, "none")
    /\ UNCHANGED <<driver, max_payload, sdioVars, hidVars, usbdev, pipeVars, hid_res>>

NoExit ==
    /\ phase = "active"
    /\ phase' = "exited"
    /\ last' = PipeLast("no exit", EmptyRequest, 0, "none")
    /\ UNCHANGED <<driver, max_payload, sdioVars, hidVars, usbdev, pipeVars, hid_res>>

\* The transport runs the registered init before it dispatches anything.
TransportInit ==
    \/ RegisteredDriver.init = "gb_sdio_init" /\ SdioInit
    \/ RegisteredDriver.init = "gb_usb_init" /\ UsbInit
    \/ RegisteredDriver.init = "NULL" /\ NoInit

\* Inbound operations go to the registered op_handler once init is over.
TransportDispatch ==
    /\ phase = "active"
    /\ \/ RegisteredDriver.op_handler = "gb_sdio_handler" /\ NextSdio
       \/ RegisteredDriver.op_handler = "gb_hid_handler" /\ NextHid
       \/ RegisteredDriver.op_handler = "gb_usb_handler" /\ NextUsb

\* The transport runs the registered exit at teardown.
TransportExit ==
    \/ RegisteredDriver.exit = "gb_sdio_exit" /\ SdioExit
    \/ RegisteredDriver.exit = "gb_usb_exit" /\ UsbExit
    \/ RegisteredDriver.exit = "NULL" /\ NoExit

InitLife == \E d \in {"hid", "sdio", "usb"} : InitRegistered(d)

NextLife == TransportInit \/ TransportDispatch \/ TransportExit

SpecLife == InitLife /\ [][NextLife]_vars

(***************************************************************************)
(* protocol_version among the steps that change what the adapters hold.    *)
(***************************************************************************)
InitVersion ==
    /\ \E d \in {"hid", "sdio"} : InitDriver(d)
    /\ max_payload \in {2052}

NextVersion ==
    \/ SdioProtocolVersion
    \/ SdioCommand
    \/ SdioTransfer
    \/ HidProtocolVersion
    \/ HidGetDescriptor
    \/ HidEventCallback

SpecVersion == InitVersion /\ [][NextVersion]_vars

(***************************************************************************)
(* get_capabilities alone, over the payload sizes a build may have.        *)
(***************************************************************************)
MaxPayloadSize == 2100

InitCaps ==
    /\ InitDriver("sdio")
    /\ max_payload \in sizeof("gb_sdio_transfer_response")..MaxPayloadSize

NextCaps == SdioGetCapabilities

SpecCaps == InitCaps /\ [][NextCaps]_vars

(***************************************************************************)
(* Claims                                                                  *)
(***************************************************************************)
WellFormed(struct) == last.req.size >= sizeof(struct)

IsTransfer == last.op = "GB_SDIO_TYPE_TRANSFER"

IsCommand == last.op = "GB_SDIO_TYPE_COMMAND"

\* C1: a transfer handled while no command is pending returns Invalid without
\* calling the host; and a transfer handled after a transfer that ran the host
\* request, with no deferring command in between, returns Invalid as well.
C1_TransferNeedsPendingCommand ==
    IsTransfer =>
        /\ ~last.pre.has_deferred_cmd => last.status = GB_OP_INVALID /\ last.calls = <<>>
        /\ last.pre_xfer = "ran" => last.status = GB_OP_INVALID

\* C2: after a transfer attempt made while a command is pending, whatever the
\* status returned, the pending flag is clear.
C2_TransferClearsPending ==
    (IsTransfer /\ WellFormed("gb_sdio_transfer_request") /\ last.pre.has_deferred_cmd)
        => ~sdio.has_deferred_cmd

\* C3: a well-formed command with data_blocks = 0 issues exactly one host request,
\* for the decoded command and without data, and the response it returns carries
\* the four words the host answered; with data_blocks > 0 it issues no host
\* request, stores the decoded command, sets the pending flag, and the response it
\* returns is the ready-for-data word 0x900 followed by zeros.
C3_CommandImmediateOrDeferred ==
    (IsCommand /\ WellFormed("gb_sdio_command_request")) =>
        LET cmd == sdio_decode_command(last.req)
            words == [i \in 1..4 |-> sys_le32_to_cpu(last.resp.payload[i])]
        IN  IF sys_le16_to_cpu(last.req.data_blocks) = 0
            THEN /\ Len(last.calls) = 1
                 /\ last.calls[1].fn = "sdhc_request"
                 /\ last.calls[1].cmd = cmd
                 /\ last.calls[1].data = NoData
                 /\ sdio = last.pre
                 /\ last.status = GB_OP_SUCCESS =>
                        /\ last.calls[1].ret = 0
                        /\ last.resp.len = sizeof("gb_sdio_command_response")
                        /\ words = last.calls[1].out
                 /\ last.status # GB_OP_SUCCESS => last.resp = NoResp
            ELSE /\ last.calls = <<>>
                 /\ sdio.deferred_cmd = cmd
                 /\ sdio.has_deferred_cmd
                 /\ last.status = GB_OP_SUCCESS =>
                        /\ last.resp.len = sizeof("gb_sdio_command_response")
                        /\ words = <<2304, 0, 0, 0>>
                 /\ last.status # GB_OP_SUCCESS => last.resp = NoResp

\* C3 witness: an immediate command answered with the host's words while an
\* earlier deferring command is still pending.
C3_Witness ==
    /\ IsCommand /\ WellFormed("gb_sdio_command_request")
    /\ sys_le16_to_cpu(last.req.data_blocks) = 0
    /\ last.status = GB_OP_SUCCESS
    /\ last.calls[1].out = <<16909060, 1, 2, 3>>
    /\ sdio.has_deferred_cmd
    /\ sdio.deferred_cmd # ZeroCmd

\* C4: the slot holds one command: after a deferring command the adapter holds
\* that command, and a transfer that reaches the host executes the latest
\* deferred command, once, never one that was overwritten.
C4_SingleSlotOverwrite ==
    /\ (IsCommand /\ IsDeferring(last.op, last.req)) =>
            sdio.has_deferred_cmd /\ CmdKey(sdio.deferred_cmd) = lastDefer
    /\ (IsTransfer /\ last.calls # <<>>) =>
            /\ Len(last.calls) = 1
            /\ last.calls[1].fn = "sdhc_request"
            /\ CmdKey(last.calls[1].cmd) = lastDefer

\* C4 witness: command A, then a different command B with no transfer between,
\* then the first transfer, which reached the host.
C4_Witness ==
    /\ IsTransfer
    /\ superseded
    /\ last.pre_xfer = "none"
    /\ last.calls # <<>>
    /\ last.status = GB_OP_SUCCESS

LargestBlockThatFits(budget) ==
    LET fit == {b \in {512, 1024, 2048} : b <= budget}
    IN  IF fit = {} THEN 0 ELSE CHOOSE m \in fit : \A b \in fit : b <= m

RequestStruct(type) ==
    CASE type = "GB_HID_TYPE_GET_REPORT" -> "gb_hid_get_report_request"
      [] type = "GB_HID_TYPE_SET_REPORT" -> "gb_hid_set_report_request"
      [] type = "GB_SDIO_TYPE_SET_IOS" -> "gb_sdio_set_ios_request"
      [] type = "GB_SDIO_TYPE_COMMAND" -> "gb_sdio_command_request"
      [] type = "GB_SDIO_TYPE_TRANSFER" -> "gb_sdio_transfer_request"
      [] type = "GB_USB_TYPE_HUB_CONTROL" -> "gb_usb_hub_control_request"
      [] OTHER -> "none"

IsShort ==
    /\ RequestStruct(last.op) # "none"
    /\ last.req.size < sizeof(RequestStruct(last.op))

\* The adapter's state is what it was before the latest operation.
StateUnchanged ==
    CASE driver = "sdio" -> sdio = last.pre
      [] driver = "hid" -> hid = last.pre
      [] driver = "usb" -> usbdev = last.pre

Rejected ==
    /\ last.status = GB_OP_INVALID
    /\ last.resp = NoResp
    /\ last.calls = <<>>
    /\ StateUnchanged

\* C5: a request shorter than its type's request structure (HID get_report and
\* set_report, SDIO set_ios, command and transfer, USB hub_control) is answered
\* Invalid, with no response allocated, no capability call made, and the cached
\* descriptor length, pending flag and deferred command left as they were.
C5_ShortPayloadInvalid ==
    IsShort => Rejected

\* A short transfer arrived while a command was pending.
C5_Witness ==
    /\ IsShort
    /\ last.op = "GB_SDIO_TYPE_TRANSFER"
    /\ last.pre.has_deferred_cmd

IsOtherType ==
    last.op \in SdioOtherTypes \cup HidOtherTypes \cup UsbOtherTypes

\* C6: each of the three handlers answers an operation type outside its switch
\* with Invalid, makes no capability call, allocates no response and leaves the
\* adapter's state unchanged.
C6_UnknownTypeInvalid ==
    IsOtherType => Rejected

\* A type outside the switch arrived at the HID handler after a descriptor was cached.
C6_Witness ==
    /\ IsOtherType
    /\ driver = "hid"
    /\ last.pre.report_desc_len > 0

(***************************************************************************)
(* Claims about the HID adapter.                                           *)
(***************************************************************************)
InFlight == IF thread_pc = "get" THEN {} ELSE {thread_msg.seq}

QueuedSeqs == {data_queue[i].seq : i \in 1..Len(data_queue)}

SentSeqs == {sent[i] : i \in 1..Len(sent)}

CallbackOnFullQueue ==
    /\ last.op = "hid_event_callback_routine"
    /\ Len(last.pre) = MAX_REPORT_OPERATIONS

\* C7: the report queue never holds more than MAX_REPORT_OPERATIONS messages; a
\* callback that finds it full returns (0, or -EINVAL for an oversized report),
\* leaves the queue as it was, and its report is never queued, taken by the
\* thread or sent; so of the reports delivered, those that met a full queue are
\* not among the outbound operations, and no report is sent twice.
C7_QueueBoundedAndLossy ==
    /\ Len(data_queue) <= MAX_REPORT_OPERATIONS
    /\ CallbackOnFullQueue => data_queue = last.pre /\ last.status \in {0, -22}
    /\ dropped \cap (QueuedSeqs \cup InFlight \cup SentSeqs) = {}
    /\ Len(sent) = Cardinality(SentSeqs)
    /\ Len(sent) + Len(data_queue) + Cardinality(InFlight)
           <= reports - Cardinality(dropped)

\* A report of a size that fits met a full queue, after some report was sent.
C7_Witness ==
    /\ CallbackOnFullQueue
    /\ last.req.len <= HID_MSG_DATA_SIZE
    /\ last.req.seq \in dropped
    /\ sent # <<>>

IsGetReportDescriptor == last.op = "GB_HID_TYPE_GET_REPORT_DESC"

\* C8: on an instance on which no get_descriptor has succeeded yet,
\* get_report_descriptor returns a status other than success.
C8_ReportDescriptorNeedsDescriptor ==
    (IsGetReportDescriptor /\ ~last.pre_xfer) => last.status # GB_OP_SUCCESS

IsGetReport ==
    /\ last.op = "GB_HID_TYPE_GET_REPORT"
    /\ last.req.size >= sizeof("gb_hid_get_report_request")

\* The length the capability reported to the latest get_report, 0 if it was not asked.
ReportedLength ==
    IF last.calls # <<>> /\ last.calls[1].fn = "get_report_length"
    THEN last.calls[1].ret ELSE 0

ExpectedLength ==
    IF last.req.report_id = 0 THEN ReportedLength ELSE ReportedLength + 1

\* C9: when the capability reports a positive length L for the report asked for,
\* the response get_report allocates is L bytes long for report id 0 and L + 1
\* bytes long for any other id, and that length is the one handed to the
\* capability's get_report.
C9_GetReportResponseLength ==
    (IsGetReport /\ ReportedLength > 0) =>
        /\ last.resp # NoResp => last.resp.len = ExpectedLength
        /\ Len(last.calls) = 2 => last.calls[2].args[3] = ExpectedLength

(***************************************************************************)
(* Claims about protocol_version.                                          *)
(***************************************************************************)
IsProtocolVersion ==
    last.op \in {"GB_HID_TYPE_PROTOCOL_VERSION", "GB_SDIO_TYPE_PROTOCOL_VERSION"}

VersionResponse == [len |-> 2, payload |-> <<0, 1>>]

\* C11 as stated: protocol_version on the HID and SDIO adapters always succeeds.
C11_ProtocolVersionAlwaysSucceeds ==
    IsProtocolVersion => last.status = GB_OP_SUCCESS

\* A step that handles protocol_version leaves everything the adapters hold as it was.
VersionStepLeavesState ==
    last'.op \in {"GB_HID_TYPE_PROTOCOL_VERSION", "GB_SDIO_TYPE_PROTOCOL_VERSION"}
        => UNCHANGED <<sdio, hid, hid_api, data_queue, thread_pc, thread_msg>>

\* C11, amended: protocol_version on the HID and SDIO adapters, in any adapter
\* state, succeeds with major = 0 and minor = 1 when its response is allocated
\* and returns NoMemory without a response when it is not; either way it makes
\* no capability call and leaves the cached descriptor length, the report
\* queue, the pending flag and the deferred command unchanged.
C11_ProtocolVersionFixedAndPure ==
    /\ [](IsProtocolVersion =>
            /\ \/ last.status = GB_OP_SUCCESS /\ last.resp = VersionResponse
               \/ last.status = GB_OP_NO_MEMORY /\ last.resp = NoResp
            /\ last.calls = <<>>
            /\ StateUnchanged)
    /\ [][VersionStepLeavesState]_vars

\* The HID version was answered while reports were queued and a descriptor
\* length was cached.
C11_Witness ==
    /\ IsProtocolVersion
    /\ last.status = GB_OP_SUCCESS
    /\ driver = "hid"
    /\ data_queue # <<>>
    /\ hid.report_desc_len > 0

(***************************************************************************)
(* Claims about the USB adapter.                                           *)
(***************************************************************************)
IsHubControl ==
    /\ last.op = "GB_USB_TYPE_HUB_CONTROL"
    /\ last.req.size >= sizeof("gb_usb_hub_control_request")

HubControlResponseSize ==
    sizeof("gb_usb_hub_control_response") + sys_le16_to_cpu(last.req.wLength)

\* C12: for every well-formed hub_control request the handler never returns
\* Success (the root hub control transfer is absent), and when it reports that
\* failure it has allocated a response of the response header plus the
\* request's wLength; only a failed allocation ends without a response.
C12_HubControlNeverFakesSuccess ==
    IsHubControl =>
        /\ last.status # GB_OP_SUCCESS
        /\ last.calls = <<>>
        /\ \/ last.status = GB_OP_NO_MEMORY /\ last.resp = NoResp
           \/ last.status # GB_OP_NO_MEMORY /\ last.resp # NoResp
              /\ last.resp.len = HubControlResponseSize

\* A hub_control asking for 300 bytes failed with its response allocated.
C12_Witness ==
    /\ IsHubControl
    /\ last.status = GB_OP_UNKNOWN_ERROR
    /\ last.resp.len = 300

\* C13: hub_control reports the unimplemented root hub control transfer with a
\* status of its own, distinct from the UnknownError of an absent device or a
\* failed capability call.
C13_HubControlNotSupportedStatus ==
    (IsHubControl /\ last.resp # NoResp) =>
        last.status \notin {GB_OP_SUCCESS, GB_OP_NO_MEMORY, GB_OP_INVALID, GB_OP_UNKNOWN_ERROR}

(***************************************************************************)
(* Claims about the statuses that reach the wire.                          *)
(***************************************************************************)
\* The statuses of the taxonomy that the handlers use.
Taxonomy == {GB_OP_SUCCESS, GB_OP_NO_MEMORY, GB_OP_INVALID, GB_OP_UNKNOWN_ERROR}

\* The capability call reported a failure to the handler.
CallFailed(call) ==
    CASE call.fn = "get_report_length" -> call.ret <= 0
      [] call.fn \in {"uhc_enable", "uhc_disable"} -> call.ret < 0
      [] OTHER -> call.ret # 0

SomeCallFailed == \E i \in 1..Len(last.calls) : CallFailed(last.calls[i])

\* C14: the status every handler returns is a member of the taxonomy; a failed
\* response allocation yields NoMemory; a failed capability call yields
\* UnknownError (on the SDIO paths, the failure status the host's errno is
\* translated to), never a raw error code and never Success.
C14_StatusTaxonomy ==
    last.op # "none" =>
        /\ last.status \in Taxonomy
        /\ last.alloc_failed => last.status = GB_OP_NO_MEMORY
        /\ (SomeCallFailed /\ driver # "sdio") => last.status = GB_OP_UNKNOWN_ERROR
        /\ (SomeCallFailed /\ driver = "sdio") => last.status \in Taxonomy \ {GB_OP_SUCCESS}

(***************************************************************************)
(* Claims about absent HID capabilities and the descriptor length cache.   *)
(***************************************************************************)
\* The api entries an HID operation needs.
NeededEntries(type) ==
    CASE type = "GB_HID_TYPE_GET_DESC" -> {"get_descriptor"}
      [] type = "GB_HID_TYPE_GET_REPORT_DESC" -> {"get_report_descriptor"}
      [] type = "GB_HID_TYPE_PWR_ON" -> {"power_on"}
      [] type = "GB_HID_TYPE_PWR_OFF" -> {"power_off"}
      [] type = "GB_HID_TYPE_GET_REPORT" -> {"get_report_length", "get_report"}
      [] type = "GB_HID_TYPE_SET_REPORT" -> {"get_report_length", "set_report"}
      [] OTHER -> {}

\* The latest operation was a well-formed one that needs api entries.
IsCapabilityOperation ==
    /\ NeededEntries(last.op) # {}
    /\ ~IsShort

\* The device, its api table or an entry the latest operation needs is absent.
CapabilityAbsent ==
    \/ hid.hid_dev = "NULL"
    \/ hid_api = {"NULL"}
    \/ ~(NeededEntries(last.op) \subseteq hid_api)

\* C15: a well-formed get_descriptor, get_report_descriptor, power_on, power_off,
\* get_report or set_report handled while the device, its api table or a needed
\* entry is absent returns UnknownError, invokes no absent entry and leaves the
\* cached report descriptor length unchanged.
C15_AbsentCapabilityUnknownError ==
    (IsCapabilityOperation /\ CapabilityAbsent) =>
        /\ last.status = GB_OP_UNKNOWN_ERROR
        /\ \A i \in 1..Len(last.calls) : last.calls[i].fn \in hid_api
        /\ hid.report_desc_len = last.pre.report_desc_len

IsHidOperation ==
    last.op \in {"GB_HID_TYPE_PROTOCOL_VERSION", "GB_HID_TYPE_GET_DESC",
                 "GB_HID_TYPE_GET_REPORT_DESC", "GB_HID_TYPE_PWR_ON", "GB_HID_TYPE_PWR_OFF",
                 "GB_HID_TYPE_GET_REPORT", "GB_HID_TYPE_SET_REPORT"} \cup HidOtherTypes

GetDescriptorSucceeded ==
    /\ last.op = "GB_HID_TYPE_GET_DESC"
    /\ last.status = GB_OP_SUCCESS

\* C20: the cached report descriptor length changes only when get_descriptor
\* returns Success, and is then the report_desc_length the capability reported;
\* a get_descriptor that fails and every other HID operation leave it as it
\* was; the response get_report_descriptor allocates has the cached length.
C20_DescriptorLengthCache ==
    IsHidOperation =>
        /\ GetDescriptorSucceeded =>
              hid.report_desc_len = last.calls[1].args[1].report_desc_length
        /\ ~GetDescriptorSucceeded => hid.report_desc_len = last.pre.report_desc_len
        /\ (last.op = "GB_HID_TYPE_GET_REPORT_DESC" /\ last.resp # NoResp) =>
              last.resp.len = last.pre.report_desc_len

\* A get_report_descriptor was answered with the 52 bytes a get_descriptor cached.
C20_Witness ==
    /\ last.op = "GB_HID_TYPE_GET_REPORT_DESC"
    /\ last.status = GB_OP_SUCCESS
    /\ last.resp.len = 52

(***************************************************************************)
(* Claims about the HID adapter's init and exit.                           *)
(***************************************************************************)
ThreadSteps == {"k_msgq_get", "gb_operation_create", "gb_operation_send_request"}

\* C16: once gb_hid_exit has returned the device callback is unregistered, the
\* thread is stopped and takes no further message and sends nothing, the queue
\* storage has been freed exactly once, and no callback puts into it.
C16_ExitIsCoordinatedTeardown ==
    phase = "exited" =>
        /\ ~hid_res.callback
        /\ hid_res.thread = "aborted"
        /\ last.op \notin ThreadSteps
        /\ hid_res.queue_storage # "allocated"
        /\ hid_res.queue_frees = IF hid_res.queue_storage = "freed" THEN 1 ELSE 0
        /\ last.op # "hid_event_callback_routine"

\* C17: when gb_hid_init has returned an error (no memory for the context,
\* get_max_report_length failed, register_callback failed) no thread is left
\* running, the queue storage and the context it allocated have been freed, the
\* callback is not registered and bundle->priv has not been set.
C17_InitFailureReleasesEverything ==
    phase = "failed" =>
        /\ last.op = "gb_hid_init" /\ last.status < 0
        /\ hid_res.thread \in {"none", "aborted"}
        /\ hid_res.queue_storage \in {"none", "freed", "NULL"}
        /\ hid_res.queue_frees = IF hid_res.queue_storage = "freed" THEN 1 ELSE 0
        /\ hid_res.ctx \in {"none", "freed"}
        /\ ~hid_res.callback
        /\ hid_res.priv = "NULL"
        /\ hid = NullInfo
        /\ data_queue = <<>>

\* register_callback refused after the queue and the thread had been created.
C17_Witness ==
    /\ phase = "failed"
    /\ last.status = -5
    /\ hid_res.thread = "aborted"
    /\ hid_res.queue_storage = "freed"
    /\ hid_res.ctx = "freed"

(***************************************************************************)
(* Claims about the USB host controller handle.                            *)
(***************************************************************************)
IsHcdOperation == last.op \in {"GB_USB_TYPE_HCD_START", "GB_USB_TYPE_HCD_STOP"}

HcdFunction == IF last.op = "GB_USB_TYPE_HCD_START" THEN "uhc_enable" ELSE "uhc_disable"

UsbHandlerTypes ==
    {"GB_USB_TYPE_PROTOCOL_VERSION", "GB_USB_TYPE_HCD_STOP", "GB_USB_TYPE_HCD_START",
     "GB_USB_TYPE_HUB_CONTROL"} \cup UsbOtherTypes

\* A step that changes usbdev is a step of gb_usb_init or gb_usb_exit.
UsbdevWrittenByInitExit ==
    usbdev' # usbdev => last'.op \in {"gb_usb_init", "gb_usb_exit"}

\* C19: hcd_start and hcd_stop return UnknownError without calling the host
\* controller when usbdev is unset, UnknownError when uhc_enable / uhc_disable
\* reports an error and Success otherwise; no USB handler writes usbdev, which
\* changes only in init and exit.
C19_HcdStartStop ==
    /\ [](IsHcdOperation =>
            IF last.pre = "NULL"
            THEN last.status = GB_OP_UNKNOWN_ERROR /\ last.calls = <<>>
            ELSE /\ Len(last.calls) = 1
                 /\ last.calls[1].fn = HcdFunction
                 /\ last.calls[1].args = <<last.pre>>
                 /\ last.status = IF last.calls[1].ret < 0 THEN GB_OP_UNKNOWN_ERROR
                                  ELSE GB_OP_SUCCESS)
    /\ [](last.op \in UsbHandlerTypes => usbdev = last.pre)
    /\ [][UsbdevWrittenByInitExit]_vars

\* hcd_start was refused for want of a device after an init that found none.
C19_Witness ==
    /\ last.op = "GB_USB_TYPE_HCD_START"
    /\ last.pre = "NULL"
    /\ phase = "failed"

(***************************************************************************)
(* C18                                                                     *)
(***************************************************************************)
LifecycleSteps ==
    {"none", "gb_sdio_init", "gb_sdio_exit", "gb_usb_init", "gb_usb_exit", "no init",
     "no exit"}

\* The last step handed an operation to the registered op_handler.
Dispatched == last.op \notin LifecycleSteps

\* What the adapter's init creates: its context, and for HID its queue and worker.
ContextCreated ==
    CASE driver = "hid" ->
             ~hid.null /\ hid_res.queue_storage = "allocated" /\ ThreadRunning
      [] driver = "sdio" -> sdio # NullInfo
      [] driver = "usb" -> usbdev # "NULL"

\* C18: each of the three adapters registers a driver with init, exit and handle;
\* an operation is dispatched to handle only after the adapter's init has created
\* its context (for HID also its queue and worker); teardown runs the adapter's exit.
C18_DriverExposesInitExitHandle ==
    /\ RegisteredDriver.init # "NULL"
    /\ RegisteredDriver.exit # "NULL"
    /\ RegisteredDriver.op_handler # "NULL"
    /\ Dispatched => ContextCreated
    /\ phase = "exited" => last.op \in {"gb_sdio_exit", "gb_usb_exit", "gb_hid_exit"}

(***************************************************************************)
(* C21                                                                     *)
(***************************************************************************)
WorkerFailed == last.op \in {"gb_operation_create", "gb_operation_send_request"} /\ last.status # 0

DestroyCalls == {i \in 1..Len(last.calls) : last.calls[i].fn = "gb_operation_destroy"}

\* C21: a failed create or send leaves the worker running at the head of its loop;
\* the failed operation is destroyed once if it had been created and not at all
\* otherwise; the message is in neither the queue nor the sent reports; the
\* thread of an active adapter runs, and it is stopped only where gb_hid_exit
\* ran or gb_hid_init gave up.
C21_WorkerResilience ==
    /\ WorkerFailed =>
          /\ ThreadRunning
          /\ thread_pc = "get"
          /\ data_queue = last.pre
          /\ last.req.seq \notin (QueuedSeqs \cup SentSeqs)
          /\ Cardinality(DestroyCalls) =
                (IF last.op = "gb_operation_send_request" THEN 1 ELSE 0)
    /\ (last.op \in ThreadSteps /\ ~WorkerFailed) => DestroyCalls = {}
    /\ phase = "active" => ThreadRunning
    /\ hid_res.thread = "aborted" => phase \in {"exited", "failed"}

\* A send has failed while another report waits in the queue.
C21_Witness ==
    /\ last.op = "gb_operation_send_request"
    /\ last.status # 0
    /\ data_queue # <<>>
    /\ ThreadRunning

(***************************************************************************)
(* C22                                                                     *)
(***************************************************************************)
\* The queue holds report seq, with len bytes.
Enqueued(seq, len) ==
    \E i \in 1..Len(data_queue) : data_queue[i].seq = seq /\ data_queue[i].len = len

\* The worker has just asked for an outbound operation for report seq, of len
\* bytes, on the adapter's CPort.
CreateAttempted(seq, len) ==
    /\ last.op = "gb_operation_create"
    /\ last.req.seq = seq
    /\ last.req.size = len
    /\ last.req.cport = hid.cport
    /\ last.req.type = "GB_HID_TYPE_IRQ_EVENT"

\* C22: with the worker scheduled fairly and no exit, every report in the queue
\* is eventually taken out and an outbound operation of the report's length is
\* asked for on the adapter's CPort.
C22_PipelineLiveness ==
    \A seq \in 1..MaxReports, len \in ReportSizes :
        Enqueued(seq, len) ~> CreateAttempted(seq, len)

\* The last report the driver delivers has been accepted behind others and its
\* operation has been asked for.
C22_Witness ==
    /\ CreateAttempted(reports, 8)
    /\ reports > MAX_REPORT_OPERATIONS
    /\ data_queue = <<>>

(***************************************************************************)
(* C23                                                                     *)
(***************************************************************************)
PipelineSteps == ThreadSteps \cup {"hid_event_callback_routine"}

\* The reports on their way out, oldest first: those sent, the one the thread
\* holds, those in the queue.  Reports are numbered in the order of delivery.
Forwarding ==
    sent \o (IF thread_pc = "get" THEN <<>> ELSE <<thread_msg.seq>>)
         \o [i \in 1..Len(data_queue) |-> data_queue[i].seq]

\* C23: only k_msgq_get of the worker takes a message out of the queue, and it
\* takes the oldest; only a callback that accepts its report adds one, at the
\* end; the reports sent, the one in the worker's hands and the queued ones are
\* in the order of their acceptance with none twice, and each of them is a
\* report a callback delivered that was neither too long nor refused by a full queue.
C23_PipelineOrdering ==
    /\ (last.op \in PipelineSteps /\ data_queue # last.pre) =>
          \/ /\ last.op = "k_msgq_get"
             /\ data_queue = Tail(last.pre)
             /\ thread_msg = Head(last.pre)
          \/ /\ last.op = "hid_event_callback_routine"
             /\ last.status = 0
             /\ last.req.len <= HID_MSG_DATA_SIZE
             /\ Len(last.pre) < MAX_REPORT_OPERATIONS
             /\ data_queue = Append(last.pre, last.req)
    /\ \A i, j \in 1..Len(Forwarding) : i < j => Forwarding[i] < Forwarding[j]
    /\ \A i \in 1..Len(Forwarding) :
          Forwarding[i] \in 1..reports /\ Forwarding[i] \notin dropped
    /\ \A i \in 1..Len(data_queue) : data_queue[i].len <= HID_MSG_DATA_SIZE

\* Reports have been sent while the worker holds one and others wait, after a
\* callback met a full queue.
C23_Witness ==
    /\ Len(sent) >= 2
    /\ thread_pc = "send"
    /\ Len(data_queue) >= 2
    /\ dropped # {}

(***************************************************************************)
(* C24                                                                     *)
(***************************************************************************)
\* C24: a deferring command makes no host request; a transfer makes at most one,
\* a combined command and data request carrying the stored command; and no
\* transfer runs a deferred command that an earlier transfer has run already.
C24_DeferredCommandRunsOnce ==
    /\ IsDeferring(last.op, last.req) => last.calls = <<>>
    /\ IsTransfer => Len(last.calls) <= 1
    /\ (IsTransfer /\ last.calls # <<>>) =>
          /\ last.calls[1].fn = "sdhc_request"
          /\ last.calls[1].cmd = last.pre.deferred_cmd
          /\ CmdKey(last.calls[1].cmd) = lastDefer
          /\ last.calls[1].data.data # "NULL"
          /\ last.pre_xfer # "ran"

(***************************************************************************)
(* C25                                                                     *)
(***************************************************************************)
BlockSizes == {MAX_BLOCK_SIZE_0, MAX_BLOCK_SIZE_1, MAX_BLOCK_SIZE_2}

Largest(S) == IF S = {} THEN 0 ELSE CHOOSE m \in S : \A n \in S : n <= m

\* The 16-bit budget get_capabilities scales: payload size less the header of
\* the transfer response.
Budget == (max_payload - sizeof("gb_sdio_transfer_response")) % 65536

\* get_capabilities got the host properties and its response, and so reached
\* the scaling.
ScaledBudget ==
    /\ last.op = "GB_SDIO_TYPE_GET_CAPABILITIES"
    /\ last.calls[1].ret = 0
    /\ last.resp # NoResp

\* The response reports the block count of a maximum transfer size of size bytes;
\* size 0 is the Invalid status.
ReportsTransferSize(size) ==
    IF size = 0 THEN last.status = GB_OP_INVALID
    ELSE /\ last.status = GB_OP_SUCCESS
         /\ sys_le16_to_cpu(last.resp.payload[5]) = size \div 512

\* C25 as stated: the maximum transfer size is the largest of 512, 1024 and 2048
\* strictly below the budget, 0 (Invalid) when there is none.
C25_LargestStrictlyBelowBudget ==
    ScaledBudget => ReportsTransferSize(Largest({m \in BlockSizes : m < Budget}))

\* C25 amended: the maximum transfer size is the largest of 512, 1024 and 2048 not
\* above the budget, 0 (Invalid) when there is none.
C25_LargestNotAboveBudget ==
    /\ scale_max_sd_block_length(Budget) = Largest({m \in BlockSizes : m <= Budget})
    /\ ScaledBudget => ReportsTransferSize(Largest({m \in BlockSizes : m <= Budget}))

\* A budget of exactly 2048 bytes is reported as four blocks.
C25_Witness ==
    /\ ScaledBudget
    /\ Budget = MAX_BLOCK_SIZE_2
    /\ ReportsTransferSize(MAX_BLOCK_SIZE_2)

(***************************************************************************)
(* C26                                                                     *)
(***************************************************************************)
\* get_report or set_report asked the capability for the report's length and
\* got zero or an error code.
NonPositiveLength ==
    /\ last.op \in {"GB_HID_TYPE_GET_REPORT", "GB_HID_TYPE_SET_REPORT"}
    /\ last.calls # <<>>
    /\ last.calls[1].fn = "get_report_length"
    /\ last.calls[1].ret <= 0

\* C26: when get_report_length returns zero or a negative error code, set_report
\* returns UnknownError and does not call the capability's set_report, as
\* get_report returns UnknownError and does not call get_report.
C26_NonPositiveLengthRejected ==
    NonPositiveLength =>
        /\ last.status = GB_OP_UNKNOWN_ERROR
        /\ Len(last.calls) = 1

(***************************************************************************)
(* C27                                                                     *)
(***************************************************************************)
\* The adapter's private context is allocated and not yet freed.
ContextLive ==
    CASE driver = "hid" -> hid_res.ctx = "allocated"
      [] driver = "sdio" -> sdio # NullInfo
      [] OTHER -> FALSE

\* bundle->priv points at a context, live or not.
BundleRefersToContext ==
    CASE driver = "hid" -> hid_res.priv # "NULL"
      [] driver = "sdio" -> sdio # NullInfo
      [] OTHER -> FALSE

\* C27: the context of the HID and of the SDIO adapter is live exactly from an
\* init that returned 0 until exit; the bundle refers to a context only while it
\* is live, so that nothing that runs after exit finds the released context
\* through the bundle; and no callback puts into the released context's queue.
C27_ContextLifetime ==
    driver \in {"hid", "sdio"} =>
        /\ ContextLive <=> phase = "active"
        /\ BundleRefersToContext => ContextLive
        /\ ~hid_res.stale_put

(***************************************************************************)
(* C28                                                                     *)
(***************************************************************************)
\* The pending flag and the stored command of an instance.
Slot(info) == <<info.has_deferred_cmd, info.deferred_cmd>>

\* The step handled an operation on the CPort of the given instance.
HandledOn(cport) == last'.pre.cport = cport

C29_PrivateFieldsRaceFree ==
    [][/\ last'.op \in PipelineSteps =>
              UNCHANGED <<hid, hid_api, desc_cached, sdioVars, usbdev>>
       /\ hid'.cport = hid.cport
       /\ hid'.hid_dev = hid.hid_dev
       /\ hid'.report_desc_len # hid.report_desc_len =>
              last'.op = "GB_HID_TYPE_GET_DESC" /\ last'.pre = hid]_vars

\* A report is accepted while the worker holds another one and the descriptor
\* length is cached.
C29_Witness ==
    /\ last.op = "hid_event_callback_routine"
    /\ last.status = 0
    /\ thread_pc = "send"
    /\ hid.report_desc_len > 0

(***************************************************************************)
(* C30                                                                     *)
(***************************************************************************)
\* A command with data_blocks = 0: it went to the host at once.
IsImmediateCommand ==
    /\ IsCommand
    /\ WellFormed("gb_sdio_command_request")
    /\ ~IsDeferring(last.op, last.req)

\* C30: an immediate command, whatever the host answers, and get_capabilities,
\* set_ios and protocol_version leave the pending flag and the stored command
\* as they found them; a transfer that reaches the host after them still runs
\* the command of the latest deferring command.
C30_ImmediateCommandKeepsSlot ==
    /\ (IsImmediateCommand \/ last.op \in {"GB_SDIO_TYPE_GET_CAPABILITIES",
                                           "GB_SDIO_TYPE_SET_IOS",
                                           "GB_SDIO_TYPE_PROTOCOL_VERSION"}) =>
          Slot(sdio) = Slot(last.pre)
    /\ IsImmediateCommand => Len(last.calls) = 1 /\ last.calls[1].data = NoData
    /\ (IsTransfer /\ last.calls # <<>>) => CmdKey(last.calls[1].cmd) = lastDefer

\* An immediate command has run at the host while a different command is pending.
C30_Witness ==
    /\ IsImmediateCommand
    /\ last.calls[1].ret = 0
    /\ sdio.has_deferred_cmd
    /\ CmdKey(last.calls[1].cmd) # CmdKey(sdio.deferred_cmd)
    /\ CmdKey(sdio.deferred_cmd) = lastDefer

(***************************************************************************)
(* C31                                                                     *)
(***************************************************************************)
\* A deferring command has just returned NoMemory.
DeferredWithoutResponse ==
    /\ IsDeferring(last.op, last.req)
    /\ last.status = GB_OP_NO_MEMORY

\* Transfers that name a direction.
DirectedTransfers ==
    {t \in TransferRequests :
        t.size >= sizeof("gb_sdio_transfer_request") /\ t.data_flags # {}}

\* The transfer handler's answer to request t in the present state.
TransferNow(t, alloc, ret) ==
    gb_sdio_protocol_transfer(sdio, t, Env(alloc, ret, AnyWords, AnyProps))

\* C31: a deferring command that returns NoMemory because its response was not
\* allocated has stored the decoded command and set the pending flag, exactly
\* as when it succeeds; a transfer that follows is not turned away for want of
\* a pending command: it hands that command to the host (a read once it has its
\* response), and succeeds when the host does.
C31_DeferCommitsBeforeAllocating ==
    DeferredWithoutResponse =>
        /\ last.alloc_failed
        /\ last.calls = <<>>
        /\ sdio.has_deferred_cmd
        /\ sdio.deferred_cmd = sdio_decode_command(last.req)
        /\ sdio = gb_sdio_protocol_command(last.pre, last.req,
                                           Env(TRUE, 0, AnyWords, AnyProps)).info
        /\ \A t \in DirectedTransfers, ret \in HostRets :
              LET r == TransferNow(t, TRUE, ret)
              IN  /\ Len(r.calls) = 1
                  /\ r.calls[1].fn = "sdhc_request"
                  /\ r.calls[1].cmd = sdio_decode_command(last.req)
                  /\ r.status = gb_errno_to_op_result(ret)
        /\ \A t \in DirectedTransfers :
              "GB_SDIO_DATA_WRITE" \in t.data_flags =>
                  TransferNow(t, FALSE, 0).calls # <<>>

\* The deferring command that returned NoMemory found no command pending.
C31_Witness ==
    /\ DeferredWithoutResponse
    /\ ~last.pre.has_deferred_cmd
    /\ sdio.has_deferred_cmd

====
